---- MODULE Spec2Model ----
(***************************************************************************)
(* Tree operations of git2-ext (src/src/tree.rs): the changed-path diff    *)
(* between two optional trees, the rebuild of a tree from a sparse edit    *)
(* map, and the keep-only-these-paths filter, over a content-addressed     *)
(* object store.                                                           *)
(***************************************************************************)
EXTENDS Bags, FiniteSets, Integers, Sequences, TLC

VARIABLES store, pc, fn, args, ret, obs, calls, repo

vars == <<store, pc, fn, args, ret, obs, calls, repo>>

(***************************************************************************)
(* Bounds of the model.                                                    *)
(***************************************************************************)
\* number of distinct entry names
NumNames == 2
\* number of distinct blob contents
NumBlobs == 2
\* entries (files and directories, at any depth) of the two trees of a diff
MaxDiffNodes == 4
\* entries of the tree and of the edit values of a rebuild or a filter
MaxNodes == 3
\* the same, for a rebuild over a store that lacks an object or room
MaxLossyNodes == 2
\* new objects that a store short of room still accepts
MaxQuota == 1
\* calls made one after the other on one store
MaxCalls == 2
\* entries of the tree the store holds before the first of these calls
MaxSessionNodes == 1
\* components of the one path such a call edits or requests
MaxSessionPathLen == 2
\* files of the trees of the commits of a repository, taken together
MaxCommitFiles == 3
\* components of an edited or requested path
MaxPathLen == 3
\* paths in one edit map or one filter list
MaxEdits == 2
\* components of all the paths of one edit map or one filter list together
MaxPathComps == 4

(***************************************************************************)
(* git file modes (git2::FileMode) and the raw mode bits.                  *)
(***************************************************************************)
FILEMODE_BLOB == 33188
FILEMODE_BLOB_EXECUTABLE == 33261
FILEMODE_TREE == 16384
FILEMODE_LINK == 40960
FILEMODE_COMMIT == 57344
\* a directory mode with extra, non-meaningful bits set (0o040755)
FILEMODE_TREE_EXTRA_BITS == 16877

NameList == <<"a", "b", "c", "d">>
Names == {NameList[i] : i \in 1..NumNames}

\* Option<T>
None == [some |-> FALSE]
Some(v) == [some |-> TRUE, val |-> v]

(***************************************************************************)
(* Object ids.  An id is the content hash of (type, content): two ids are  *)
(* equal exactly when type and content are equal, so the id is modelled by *)
(* the pair itself.  A tree's content is a function from the names of its  *)
(* entries to [id, mode].                                                  *)
(***************************************************************************)
BlobOid(n) == [otype |-> "blob", data |-> n]
TreeOid(entries) == [otype |-> "tree", data |-> entries]
ZeroOid == [otype |-> "zero", data |-> 0]
is_zero(oid) == oid.otype = "zero"

EmptyEntries == <<>>
EmptyTreeOid == TreeOid(EmptyEntries)

Entry(oid, mode) == [id |-> oid, mode |-> mode]

\* git_tree_entry_type: the kind of an entry is read off its mode bits
ModeType(mode) == (mode \div 4096) % 16
entry_kind(entry) ==
    IF ModeType(entry.mode) = 14 THEN "Commit"
    ELSE IF ModeType(entry.mode) = 4 THEN "Tree"
    ELSE "Blob"

\* git_tree_entry_filemode: the mode normalised to one of the five git modes
normalize_filemode(mode) ==
    IF ModeType(mode) = 4 THEN FILEMODE_TREE
    ELSE IF (mode \div 64) % 2 = 1 \/ (mode \div 8) % 2 = 1 \/ mode % 2 = 1
         THEN FILEMODE_BLOB_EXECUTABLE
    ELSE IF ModeType(mode) = 14 THEN FILEMODE_COMMIT
    ELSE IF ModeType(mode) = 10 THEN FILEMODE_LINK
    ELSE FILEMODE_BLOB

\* Repository::find_tree
find_tree(odb, oid) ==
    [ok |-> oid \in odb /\ oid.otype = "tree", tree |-> oid]

\* Tree::is_empty
is_empty(tree) == DOMAIN tree.data = {}

(***************************************************************************)
(* The trees the calls are given: every tree with a given number of        *)
(* entries, counted over all depths.                                       *)
(***************************************************************************)
Blobs == {BlobOid(n) : n \in 1..NumBlobs}
FileModes == {FILEMODE_BLOB, FILEMODE_BLOB_EXECUTABLE}
TreeModes == {FILEMODE_TREE, FILEMODE_TREE_EXTRA_BITS}
FileEntries == {Entry(b, m) : b \in Blobs, m \in FileModes}

RECURSIVE Forest(_, _)
\* tree contents over the names NameList[i..NumNames] holding exactly k entries
Forest(i, k) ==
    IF i > NumNames THEN (IF k = 0 THEN {EmptyEntries} ELSE {})
    ELSE LET n == NameList[i]
         IN Forest(i + 1, k)
            \cup (IF k = 0 THEN {}
                  ELSE {(n :> e) @@ f : e \in FileEntries, f \in Forest(i + 1, k - 1)})
            \cup UNION {{(n :> Entry(TreeOid(t), m)) @@ f :
                            t \in Forest(1, j), m \in TreeModes,
                            f \in Forest(i + 1, k - 1 - j)} : j \in 0..(k - 1)}

MaxTreeNodes == IF MaxDiffNodes > MaxNodes THEN MaxDiffNodes ELSE MaxNodes
TreesOfSize == [k \in 0..MaxTreeNodes |-> {TreeOid(t) : t \in Forest(1, k)}]
TreesUpTo(k) == UNION {TreesOfSize[j] : j \in 0..k}

RECURSIVE Closure(_)
\* every object reachable from a tree, the tree included
Closure(tree) ==
    {tree} \cup UNION {IF entry_kind(tree.data[n]) = "Tree"
                       THEN Closure(tree.data[n].id)
                       ELSE {tree.data[n].id} : n \in DOMAIN tree.data}

OptClosure(t) == IF t.some THEN Closure(t.val) ELSE {}

\* the orders in which a HashMap may hand out its keys
Orders == {o \in [1..NumNames -> Names] : \A i, j \in 1..NumNames : o[i] = o[j] => i = j}
InOrder(ord, S) == SelectSeq(ord, LAMBDA n : n \in S)

(***************************************************************************)
(* get_changed_paths_between_trees                                         *)
(***************************************************************************)
entries_of(tree) == IF tree.some THEN tree.val.data ELSE EmptyEntries
get_entry(entries, name) == IF name \in DOMAIN entries THEN Some(entries[name]) ELSE None

classify_entry(entry) ==
    IF ~entry.some THEN [c |-> "Absent", oid |-> ZeroOid, mode |-> 0]
    ELSE IF entry_kind(entry.val) = "Tree"
         THEN [c |-> "Tree", oid |-> entry.val.id, mode |-> entry.val.mode]
    ELSE [c |-> "NotATree", oid |-> entry.val.id, mode |-> entry.val.mode]

DiffNothing == [ok |-> TRUE, acc |-> EmptyBag, finds |-> {}]
DiffPush(path) == [ok |-> TRUE, acc |-> SetToBag({path}), finds |-> {}]

\* variant: a file counts as changed only when its content id changed
diff_both_files_ignores_mode(full_entry_path, l, r) ==
    IF l.oid = r.oid THEN DiffNothing ELSE DiffPush(full_entry_path)

\* variant: the comparison of the ids is negated
diff_both_files_negated(full_entry_path, l, r) ==
    IF l.oid # r.oid /\ l.mode = r.mode THEN DiffNothing
    ELSE DiffPush(full_entry_path)

\* neither side is a tree
diff_both_files(full_entry_path, l, r) ==
    IF l.oid = r.oid /\ l.mode = r.mode THEN DiffNothing
    ELSE DiffPush(full_entry_path)

RECURSIVE get_changed_paths_between_trees_internal(_, _, _, _, _)

\* variant: the directory's own path is pushed whatever own_path says
diff_one_sided_reports_dir(odb, ord, full_entry_path, tree_oid, own_path) ==
    LET tree == find_tree(odb, tree_oid)
        looked == {<<full_entry_path, tree_oid>>}
    IN IF ~tree.ok THEN [ok |-> FALSE, acc |-> EmptyBag, finds |-> looked]
       ELSE LET sub == get_changed_paths_between_trees_internal(
                           odb, ord, full_entry_path, Some(tree.tree), None)
            IN [ok |-> sub.ok,
                acc |-> IF sub.ok
                        THEN sub.acc (+) SetToBag({full_entry_path})
                        ELSE sub.acc,
                finds |-> looked \cup sub.finds]

\* variant: the entry's own path is never pushed after the recursion
diff_one_sided_drops_own_path(odb, ord, full_entry_path, tree_oid, own_path) ==
    LET tree == find_tree(odb, tree_oid)
        looked == {<<full_entry_path, tree_oid>>}
    IN IF ~tree.ok THEN [ok |-> FALSE, acc |-> EmptyBag, finds |-> looked]
       ELSE LET sub == get_changed_paths_between_trees_internal(
                           odb, ord, full_entry_path, Some(tree.tree), None)
            IN [ok |-> sub.ok, acc |-> sub.acc, finds |-> looked \cup sub.finds]

\* variant: a failed lookup of the subtree is taken for an empty subtree
diff_one_sided_swallows_failure(odb, ord, full_entry_path, tree_oid, own_path) ==
    LET tree == find_tree(odb, tree_oid)
        looked == {<<full_entry_path, tree_oid>>}
    IN IF ~tree.ok THEN [ok |-> TRUE, acc |-> EmptyBag, finds |-> looked]
       ELSE LET sub == get_changed_paths_between_trees_internal(
                           odb, ord, full_entry_path, Some(tree.tree), None)
            IN [ok |-> sub.ok,
                acc |-> IF sub.ok /\ own_path
                        THEN sub.acc (+) SetToBag({full_entry_path})
                        ELSE sub.acc,
                finds |-> looked \cup sub.finds]

\* variant: the entry's own path is pushed before the recursion and again
\* after it
diff_one_sided_pushes_twice(odb, ord, full_entry_path, tree_oid, own_path) ==
    LET tree == find_tree(odb, tree_oid)
        looked == {<<full_entry_path, tree_oid>>}
        own == IF own_path THEN SetToBag({full_entry_path}) ELSE EmptyBag
    IN IF ~tree.ok THEN [ok |-> FALSE, acc |-> own, finds |-> looked]
       ELSE LET sub == get_changed_paths_between_trees_internal(
                           odb, ord, full_entry_path, Some(tree.tree), None)
            IN [ok |-> sub.ok,
                acc |-> IF sub.ok THEN own (+) sub.acc (+) own ELSE own (+) sub.acc,
                finds |-> looked \cup sub.finds]

\* one side is a tree, the other is absent or not a tree: every entry of the
\* tree is compared against nothing; own_path says whether the entry's own
\* path is pushed after the recursion
diff_one_sided(odb, ord, full_entry_path, tree_oid, own_path) ==
    LET tree == find_tree(odb, tree_oid)
        looked == {<<full_entry_path, tree_oid>>}
    IN IF ~tree.ok THEN [ok |-> FALSE, acc |-> EmptyBag, finds |-> looked]
       ELSE LET sub == get_changed_paths_between_trees_internal(
                           odb, ord, full_entry_path, Some(tree.tree), None)
            IN [ok |-> sub.ok,
                acc |-> IF sub.ok /\ own_path
                        THEN sub.acc (+) SetToBag({full_entry_path})
                        ELSE sub.acc,
                finds |-> looked \cup sub.finds]

\* variant: two directories are compared by mode before their ids are, and
\* directories of equal mode count as unchanged
diff_both_trees_mode_first(odb, ord, full_entry_path, l, r) ==
    LET same_oid == l.oid = r.oid
        same_mode == l.mode = r.mode
    IN IF same_mode THEN DiffNothing
       ELSE IF same_oid THEN DiffPush(full_entry_path)
       ELSE LET lhs_tree == find_tree(odb, l.oid)
                rhs_tree == find_tree(odb, r.oid)
            IN IF ~lhs_tree.ok \/ ~rhs_tree.ok
               THEN [ok |-> FALSE, acc |-> EmptyBag,
                     finds |-> {<<full_entry_path, l.oid>>}]
               ELSE LET sub == get_changed_paths_between_trees_internal(
                                   odb, ord, full_entry_path,
                                   Some(lhs_tree.tree), Some(rhs_tree.tree))
                    IN [ok |-> sub.ok,
                        acc |-> IF sub.ok
                                THEN sub.acc (+) SetToBag({full_entry_path})
                                ELSE sub.acc,
                        finds |-> {<<full_entry_path, l.oid>>, <<full_entry_path, r.oid>>}
                                  \cup sub.finds]

\* both sides are trees
diff_both_trees(odb, ord, full_entry_path, l, r) ==
    LET same_oid == l.oid = r.oid
        same_mode == l.mode = r.mode
    IN IF same_oid /\ same_mode THEN DiffNothing
       ELSE IF same_oid THEN DiffPush(full_entry_path)
       ELSE LET lhs_tree == find_tree(odb, l.oid)
                rhs_tree == find_tree(odb, r.oid)
            IN IF ~lhs_tree.ok
               THEN [ok |-> FALSE, acc |-> EmptyBag,
                     finds |-> {<<full_entry_path, l.oid>>}]
               ELSE IF ~rhs_tree.ok
               THEN [ok |-> FALSE, acc |-> EmptyBag,
                     finds |-> {<<full_entry_path, l.oid>>, <<full_entry_path, r.oid>>}]
               ELSE LET sub == get_changed_paths_between_trees_internal(
                                   odb, ord, full_entry_path,
                                   Some(lhs_tree.tree), Some(rhs_tree.tree))
                    IN [ok |-> sub.ok,
                        acc |-> IF sub.ok /\ ~same_mode
                                THEN sub.acc (+) SetToBag({full_entry_path})
                                ELSE sub.acc,
                        finds |-> {<<full_entry_path, l.oid>>, <<full_entry_path, r.oid>>}
                                  \cup sub.finds]

\* variant: a directory on the left against a file on the right is handled
\* as a removed directory, without the entry's own path
diff_entry_one_direction(odb, ord, current_path, entry_name, lhs_entry, rhs_entry) ==
    LET l == classify_entry(lhs_entry)
        r == classify_entry(rhs_entry)
        full_entry_path == Append(current_path, entry_name)
    IN CASE l.c = "Absent" /\ r.c = "Absent" -> DiffNothing
         [] l.c = "NotATree" /\ r.c = "NotATree" ->
              diff_both_files(full_entry_path, l, r)
         [] (l.c = "Absent" /\ r.c = "NotATree") \/ (l.c = "NotATree" /\ r.c = "Absent") ->
              DiffPush(full_entry_path)
         [] l.c = "Absent" /\ r.c = "Tree" ->
              diff_one_sided(odb, ord, full_entry_path, r.oid, FALSE)
         [] l.c = "Tree" /\ r.c = "Absent" ->
              diff_one_sided(odb, ord, full_entry_path, l.oid, FALSE)
         [] l.c = "NotATree" /\ r.c = "Tree" ->
              diff_one_sided(odb, ord, full_entry_path, r.oid, TRUE)
         [] l.c = "Tree" /\ r.c = "NotATree" ->
              diff_one_sided(odb, ord, full_entry_path, l.oid, FALSE)
         [] l.c = "Tree" /\ r.c = "Tree" ->
              diff_both_trees(odb, ord, full_entry_path, l, r)

\* variant: a file that is on the left only is not reported
diff_entry_forgets_removed(odb, ord, current_path, entry_name, lhs_entry, rhs_entry) ==
    LET l == classify_entry(lhs_entry)
        r == classify_entry(rhs_entry)
        full_entry_path == Append(current_path, entry_name)
    IN CASE l.c = "Absent" /\ r.c = "Absent" -> DiffNothing
         [] l.c = "NotATree" /\ r.c = "NotATree" ->
              diff_both_files(full_entry_path, l, r)
         [] l.c = "Absent" /\ r.c = "NotATree" -> DiffPush(full_entry_path)
         [] l.c = "NotATree" /\ r.c = "Absent" -> DiffNothing
         [] l.c = "Absent" /\ r.c = "Tree" ->
              diff_one_sided(odb, ord, full_entry_path, r.oid, FALSE)
         [] l.c = "Tree" /\ r.c = "Absent" ->
              diff_one_sided(odb, ord, full_entry_path, l.oid, FALSE)
         [] l.c = "NotATree" /\ r.c = "Tree" ->
              diff_one_sided(odb, ord, full_entry_path, r.oid, TRUE)
         [] l.c = "Tree" /\ r.c = "NotATree" ->
              diff_one_sided(odb, ord, full_entry_path, l.oid, TRUE)
         [] l.c = "Tree" /\ r.c = "Tree" ->
              diff_both_trees(odb, ord, full_entry_path, l, r)

\* the decision table applied to one entry name
diff_entry(odb, ord, current_path, entry_name, lhs_entry, rhs_entry) ==
    LET l == classify_entry(lhs_entry)
        r == classify_entry(rhs_entry)
        full_entry_path == Append(current_path, entry_name)
    IN CASE l.c = "Absent" /\ r.c = "Absent" -> DiffNothing
         [] l.c = "NotATree" /\ r.c = "NotATree" ->
              diff_both_files(full_entry_path, l, r)
         [] (l.c = "Absent" /\ r.c = "NotATree") \/ (l.c = "NotATree" /\ r.c = "Absent") ->
              DiffPush(full_entry_path)
         [] l.c = "Absent" /\ r.c = "Tree" ->
              diff_one_sided(odb, ord, full_entry_path, r.oid, FALSE)
         [] l.c = "Tree" /\ r.c = "Absent" ->
              diff_one_sided(odb, ord, full_entry_path, l.oid, FALSE)
         [] l.c = "NotATree" /\ r.c = "Tree" ->
              diff_one_sided(odb, ord, full_entry_path, r.oid, TRUE)
         [] l.c = "Tree" /\ r.c = "NotATree" ->
              diff_one_sided(odb, ord, full_entry_path, l.oid, TRUE)
         [] l.c = "Tree" /\ r.c = "Tree" ->
              diff_both_trees(odb, ord, full_entry_path, l, r)

RECURSIVE diff_entries(_, _, _, _, _, _)
\* the loop over the entry names, left at the first failure
diff_entries(odb, ord, current_path, names, lhs_entries, rhs_entries) ==
    IF names = <<>> THEN DiffNothing
    ELSE LET first == diff_entry(odb, ord, current_path, Head(names),
                                 get_entry(lhs_entries, Head(names)),
                                 get_entry(rhs_entries, Head(names)))
         IN IF ~first.ok THEN first
            ELSE LET rest == diff_entries(odb, ord, current_path, Tail(names),
                                          lhs_entries, rhs_entries)
                 IN [ok |-> rest.ok,
                     acc |-> first.acc (+) rest.acc,
                     finds |-> first.finds \cup rest.finds]

get_changed_paths_between_trees_internal(odb, ord, current_path, lhs, rhs) ==
    LET lhs_entries == entries_of(lhs)
        rhs_entries == entries_of(rhs)
        all_entry_names == DOMAIN lhs_entries \cup DOMAIN rhs_entries
    IN diff_entries(odb, ord, current_path, InOrder(ord, all_entry_names),
                    lhs_entries, rhs_entries)

get_changed_paths_between_trees(odb, ord, lhs, rhs) ==
    LET r == get_changed_paths_between_trees_internal(odb, ord, <<>>, lhs, rhs)
    IN [ok |-> r.ok,
        changed_paths |-> IF r.ok THEN BagToSet(r.acc) ELSE {},
        acc |-> r.acc,
        finds |-> r.finds]

(***************************************************************************)
(* git2::TreeBuilder over the store.  A builder is the function from entry *)
(* names to entries that write() will store.                               *)
(***************************************************************************)
\* variant: the builder starts without the entries of the tree
treebuilder_unseeded(tree) == EmptyEntries

\* Repository::treebuilder: seeded with the entries of the tree, if any
treebuilder(tree) == entries_of(tree)

\* TreeBuilder::get
builder_get(builder, name) == get_entry(builder, name)

valid_filemode(mode) ==
    mode \in {FILEMODE_TREE, FILEMODE_BLOB, FILEMODE_BLOB_EXECUTABLE,
              FILEMODE_LINK, FILEMODE_COMMIT}

otype_from_mode(mode) ==
    IF mode = FILEMODE_TREE THEN "tree"
    ELSE IF mode = FILEMODE_COMMIT THEN "commit"
    ELSE "blob"

\* TreeBuilder::insert: refuses a mode that is not a git mode, the zero id
\* and an id that is not an object of the mode's type in the store
builder_insert(odb, builder, name, oid, mode) ==
    IF \/ ~valid_filemode(mode)
       \/ is_zero(oid)
       \/ (mode # FILEMODE_COMMIT /\ ~(oid \in odb /\ oid.otype = otype_from_mode(mode)))
    THEN [ok |-> FALSE, builder |-> builder]
    ELSE [ok |-> TRUE, builder |-> (name :> Entry(oid, mode)) @@ builder]

\* TreeBuilder::remove: an error when the builder has no such entry
builder_remove(builder, name) ==
    IF name \in DOMAIN builder
    THEN [ok |-> TRUE, builder |-> [n \in DOMAIN builder \ {name} |-> builder[n]]]
    ELSE [ok |-> FALSE, builder |-> builder]

\* variant: the tree is written over the tree of the store that has the same
\* entry names
builder_write_in_place(odb, builder) ==
    LET oid == TreeOid(builder)
        old == {t \in odb : t.otype = "tree" /\ t # oid /\ DOMAIN t.data = DOMAIN builder}
    IN [ok |-> TRUE, oid |-> oid, odb |-> (odb \ old) \cup {oid}]

\* The room of the object database: a store that holds Quota(n) accepts n
\* more new objects (a full disk, a read-only store); a store that holds no
\* quota accepts any number.
Quota(n) == [otype |-> "quota", data |-> n]
is_full(odb) == Quota(0) \in odb
spend_quota(odb) == {IF o.otype = "quota" THEN Quota(o.data - 1) ELSE o : o \in odb}

\* TreeBuilder::write: stores the tree and returns its id; an object the
\* store already holds is not written again, a new one needs room
builder_write(odb, builder) ==
    LET oid == TreeOid(builder)
    IN IF oid \in odb THEN [ok |-> TRUE, oid |-> oid, odb |-> odb]
       ELSE IF is_full(odb) THEN [ok |-> FALSE, oid |-> ZeroOid, odb |-> odb]
       ELSE [ok |-> TRUE, oid |-> oid, odb |-> spend_quota(odb) \cup {oid}]

\* variant: the removal is attempted whether or not the builder holds the
\* entry
remove_entry_if_exists_unguarded(builder, name) == builder_remove(builder, name)

\* variant: the entry is never removed
remove_entry_if_exists_keeps(builder, name) == [ok |-> TRUE, builder |-> builder]

remove_entry_if_exists(builder, name) ==
    IF builder_get(builder, name).some
    THEN builder_remove(builder, name)
    ELSE [ok |-> TRUE, builder |-> builder]

(***************************************************************************)
(* rebuild_tree.  An edit map is a function from paths (sequences of       *)
(* names) to Option<(id, mode)>.                                           *)
(***************************************************************************)
\* the edits of one component, keyed by that component
file_entries_of(entries) ==
    [n \in {p[1] : p \in {q \in DOMAIN entries : Len(q) = 1}} |-> entries[<<n>>]]

\* the longer edits, grouped by first component and keyed by the rest
dir_entries_of(entries) ==
    [n \in {p[1] : p \in {q \in DOMAIN entries : Len(q) >= 2}} |->
        [rest \in {Tail(p) : p \in {q \in DOMAIN entries : Len(q) >= 2 /\ q[1] = n}} |->
            entries[<<n>> \o rest]]]

\* variant: a None edit of a direct entry is skipped
apply_file_entry_skips_none(odb, builder, file_name, file_value) ==
    IF file_value.some
    THEN builder_insert(odb, builder, file_name, file_value.val.id, file_value.val.mode)
    ELSE [ok |-> TRUE, builder |-> builder]

\* one direct entry: upsert, or remove if present
apply_file_entry(odb, builder, file_name, file_value) ==
    IF file_value.some
    THEN builder_insert(odb, builder, file_name, file_value.val.id, file_value.val.mode)
    ELSE remove_entry_if_exists(builder, file_name)

RECURSIVE apply_file_entries(_, _, _, _)
\* the loop over the direct entries, left at the first failure
apply_file_entries(odb, builder, names, file_entries) ==
    IF names = <<>> THEN [ok |-> TRUE, builder |-> builder]
    ELSE LET first == apply_file_entry(odb, builder, Head(names), file_entries[Head(names)])
         IN IF ~first.ok THEN first
            ELSE apply_file_entries(odb, first.builder, Tail(names), file_entries)

RECURSIVE rebuild_tree(_, _, _, _)

\* variant: the rebuilt subtree is inserted even when it is empty
place_dir_entry_keeps_empty(odb, builder, dir_name, new_entry_oid) ==
    LET new_entry_tree == find_tree(odb, new_entry_oid)
    IN IF ~new_entry_tree.ok THEN [ok |-> FALSE, builder |-> builder]
       ELSE builder_insert(odb, builder, dir_name, new_entry_oid, FILEMODE_TREE)

\* variant: a non-tree entry of the group's name is left in place
place_dir_entry_keeps_file(odb, builder, dir_name, new_entry_oid) ==
    LET new_entry_tree == find_tree(odb, new_entry_oid)
        got == builder_get(builder, dir_name)
    IN IF ~new_entry_tree.ok THEN [ok |-> FALSE, builder |-> builder]
       ELSE IF got.some /\ entry_kind(got.val) # "Tree"
       THEN [ok |-> TRUE, builder |-> builder]
       ELSE IF is_empty(new_entry_tree.tree)
       THEN remove_entry_if_exists(builder, dir_name)
       ELSE builder_insert(odb, builder, dir_name, new_entry_oid, FILEMODE_TREE)

\* the entry of a subtree group after the group was rebuilt into new_entry_oid
place_dir_entry(odb, builder, dir_name, new_entry_oid) ==
    LET new_entry_tree == find_tree(odb, new_entry_oid)
    IN IF ~new_entry_tree.ok THEN [ok |-> FALSE, builder |-> builder]
       ELSE IF is_empty(new_entry_tree.tree)
       THEN remove_entry_if_exists(builder, dir_name)
       ELSE builder_insert(odb, builder, dir_name, new_entry_oid, FILEMODE_TREE)

\* variant: a subtree group never starts from the existing directory
existing_dir_entry_ignored(odb, builder, dir_name) == [ok |-> TRUE, tree |-> None]

\* the base of a subtree group: the builder's entry of that name when it is
\* a tree, else nothing
existing_dir_entry(odb, builder, dir_name) ==
    LET got == builder_get(builder, dir_name)
    IN IF got.some /\ ~is_zero(got.val.id) /\ entry_kind(got.val) = "Tree"
       THEN LET tree == find_tree(odb, got.val.id)
            IN [ok |-> tree.ok, tree |-> Some(tree.tree)]
       ELSE [ok |-> TRUE, tree |-> None]

\* variant: the tree written for the group is gone from the store once its
\* entry is placed
apply_dir_entry_rolls_back(odb, ord, builder, dir_name, dir_value) ==
    LET rebuilt(sub) ==
            IF ~sub.ok
            THEN [ok |-> FALSE, builder |-> builder, odb |-> sub.odb,
                  writes |-> {<< <<dir_name>> \o w[1], w[2] >> : w \in sub.writes},
                  failed |-> <<dir_name>> \o sub.failed]
            ELSE LET placed == place_dir_entry(sub.odb, builder, dir_name, sub.oid)
                 IN [ok |-> placed.ok, builder |-> placed.builder, odb |-> odb,
                     writes |-> {}, failed |-> <<>>]
        based(existing) ==
            IF ~existing.ok
            THEN [ok |-> FALSE, builder |-> builder, odb |-> odb,
                  writes |-> {}, failed |-> <<>>]
            ELSE rebuilt(rebuild_tree(odb, ord, existing.tree, dir_value))
    IN based(existing_dir_entry(odb, builder, dir_name))

\* one subtree group: based on the existing directory the group is rebuilt,
\* and once rebuilt its entry is placed.  writes are the trees written so
\* far, each with the level (the directory path below this call) whose
\* builder wrote it; failed is the level at which the call failed, if it did.
apply_dir_entry(odb, ord, builder, dir_name, dir_value) ==
    LET rebuilt(sub) ==
            IF ~sub.ok
            THEN [ok |-> FALSE, builder |-> builder, odb |-> sub.odb,
                  writes |-> {<< <<dir_name>> \o w[1], w[2] >> : w \in sub.writes},
                  failed |-> <<dir_name>> \o sub.failed]
            ELSE LET placed == place_dir_entry(sub.odb, builder, dir_name, sub.oid)
                 IN [ok |-> placed.ok, builder |-> placed.builder, odb |-> sub.odb,
                     writes |-> {<< <<dir_name>> \o w[1], w[2] >> : w \in sub.writes},
                     failed |-> <<>>]
        based(existing) ==
            IF ~existing.ok
            THEN [ok |-> FALSE, builder |-> builder, odb |-> odb,
                  writes |-> {}, failed |-> <<>>]
            ELSE rebuilt(rebuild_tree(odb, ord, existing.tree, dir_value))
    IN based(existing_dir_entry(odb, builder, dir_name))

RECURSIVE apply_dir_entries(_, _, _, _, _)
\* variant: after a group failed the remaining groups are still rebuilt
apply_dir_entries_goes_on(odb, ord, builder, names, dir_entries) ==
    IF names = <<>>
    THEN [ok |-> TRUE, builder |-> builder, odb |-> odb, writes |-> {}, failed |-> <<>>]
    ELSE LET both(first, rest) ==
                 [ok |-> first.ok /\ rest.ok, builder |-> rest.builder, odb |-> rest.odb,
                  writes |-> first.writes \cup rest.writes,
                  failed |-> IF first.ok THEN rest.failed ELSE first.failed]
             after(first) ==
                 both(first, apply_dir_entries(first.odb, ord, first.builder,
                                               Tail(names), dir_entries))
         IN after(apply_dir_entry(odb, ord, builder, Head(names), dir_entries[Head(names)]))

\* the loop over the subtree groups, left at the first failure
apply_dir_entries(odb, ord, builder, names, dir_entries) ==
    IF names = <<>>
    THEN [ok |-> TRUE, builder |-> builder, odb |-> odb, writes |-> {}, failed |-> <<>>]
    ELSE LET both(first, rest) ==
                 [ok |-> rest.ok, builder |-> rest.builder, odb |-> rest.odb,
                  writes |-> first.writes \cup rest.writes, failed |-> rest.failed]
             after(first) ==
                 IF ~first.ok THEN first
                 ELSE both(first, apply_dir_entries(first.odb, ord, first.builder,
                                                    Tail(names), dir_entries))
         IN after(apply_dir_entry(odb, ord, builder, Head(names), dir_entries[Head(names)]))

\* variant: the subtree groups are processed before the direct entries are
\* applied
rebuild_tree_groups_first(odb, ord, tree, entries) ==
    LET file_entries == file_entries_of(entries)
        dir_entries == dir_entries_of(entries)
        written_as(dirs, written) ==
            [ok |-> written.ok, oid |-> written.oid, odb |-> written.odb,
             writes |-> dirs.writes
                        \cup (IF written.ok THEN {<< <<>>, written.oid >>} ELSE {}),
             failed |-> <<>>]
        after_files(dirs, files) ==
            IF ~files.ok
            THEN [ok |-> FALSE, oid |-> ZeroOid, odb |-> dirs.odb,
                  writes |-> dirs.writes, failed |-> <<>>]
            ELSE written_as(dirs, builder_write(dirs.odb, files.builder))
        after_dirs(dirs) ==
            IF ~dirs.ok
            THEN [ok |-> FALSE, oid |-> ZeroOid, odb |-> dirs.odb,
                  writes |-> dirs.writes, failed |-> dirs.failed]
            ELSE after_files(dirs, apply_file_entries(dirs.odb, dirs.builder,
                                                      InOrder(ord, DOMAIN file_entries),
                                                      file_entries))
    IN after_dirs(apply_dir_entries(odb, ord, treebuilder(tree),
                                    InOrder(ord, DOMAIN dir_entries), dir_entries))

\* the direct entries are applied to the builder of the base tree, then the
\* subtree groups, then the builder is written
rebuild_tree(odb, ord, tree, entries) ==
    LET file_entries == file_entries_of(entries)
        dir_entries == dir_entries_of(entries)
        written_as(dirs, written) ==
            [ok |-> written.ok, oid |-> written.oid, odb |-> written.odb,
             writes |-> dirs.writes
                        \cup (IF written.ok THEN {<< <<>>, written.oid >>} ELSE {}),
             failed |-> <<>>]
        after_dirs(dirs) ==
            IF ~dirs.ok
            THEN [ok |-> FALSE, oid |-> ZeroOid, odb |-> dirs.odb,
                  writes |-> dirs.writes, failed |-> dirs.failed]
            ELSE written_as(dirs, builder_write(dirs.odb, dirs.builder))
        after_files(files) ==
            IF ~files.ok
            THEN [ok |-> FALSE, oid |-> ZeroOid, odb |-> odb, writes |-> {}, failed |-> <<>>]
            ELSE after_dirs(apply_dir_entries(odb, ord, files.builder,
                                              InOrder(ord, DOMAIN dir_entries), dir_entries))
    IN after_files(apply_file_entries(odb, treebuilder(tree),
                                      InOrder(ord, DOMAIN file_entries), file_entries))

(***************************************************************************)
(* filter_tree                                                             *)
(***************************************************************************)
RECURSIVE get_path(_, _, _)
\* Tree::get_path: the entry at a path, NotFound, or the failure of a lookup
get_path(odb, tree, path) ==
    IF path = <<>> \/ Head(path) \notin DOMAIN tree.data
    THEN [code |-> "NotFound", entry |-> None]
    ELSE LET entry == tree.data[Head(path)]
         IN IF Len(path) = 1 THEN [code |-> "Ok", entry |-> Some(entry)]
            ELSE IF entry_kind(entry) # "Tree" THEN [code |-> "NotFound", entry |-> None]
            ELSE LET subtree == find_tree(odb, entry.id)
                 IN IF ~subtree.ok THEN [code |-> "Error", entry |-> None]
                    ELSE get_path(odb, subtree.tree, Tail(path))

\* the edit of one requested path: its entry in the tree, or None
filter_entry(odb, tree, path) ==
    LET got == get_path(odb, tree, path)
    IN IF got.code = "Ok"
       THEN Some(Entry(got.entry.val.id, normalize_filemode(got.entry.val.mode)))
       ELSE None

filter_tree(odb, ord, tree, paths) ==
    IF \E path \in paths : get_path(odb, tree, path).code = "Error"
    THEN [ok |-> FALSE, oid |-> ZeroOid, odb |-> odb, writes |-> {}, failed |-> <<>>]
    ELSE rebuild_tree(odb, ord, None, [path \in paths |-> filter_entry(odb, tree, path)])

(***************************************************************************)
(* The calls.  A state holds the store, the call that is pending or done   *)
(* (fn, args), its result (ret) and what it did on the way (obs).          *)
(***************************************************************************)
\* an absent tree counts no entry
OptTreesOfSize(k) ==
    {Some(t) : t \in TreesOfSize[k]} \cup (IF k = 0 THEN {None} ELSE {})
OptTreesUpTo(k) == UNION {OptTreesOfSize(j) : j \in 0..k}

NoRet == [ok |-> FALSE, pending |-> TRUE]
\* the tree calls read and write the object database only
NoRepo == [bare |-> TRUE]
NoObs == [pending |-> TRUE]

InitDiff ==
    /\ pc = "idle"
    /\ fn = "get_changed_paths_between_trees"
    /\ \E k \in 0..MaxDiffNodes :
          \E l \in OptTreesOfSize(k), r \in OptTreesUpTo(MaxDiffNodes - k) :
             args = [lhs |-> l, rhs |-> r]
    /\ store = OptClosure(args.lhs) \cup OptClosure(args.rhs)
    /\ ret = NoRet
    /\ obs = NoObs
    /\ calls = 0
    /\ repo = NoRepo

DiffCall ==
    /\ pc = "idle"
    /\ fn = "get_changed_paths_between_trees"
    /\ \E ord \in Orders :
          LET r == get_changed_paths_between_trees(store, ord, args.lhs, args.rhs)
          IN /\ ret' = [ok |-> r.ok, changed_paths |-> r.changed_paths]
             /\ obs' = [acc |-> r.acc, finds |-> r.finds]
    /\ pc' = "done"
    /\ calls' = calls + 1
    /\ UNCHANGED repo
    /\ UNCHANGED <<store, fn, args>>

SpecDiff == InitDiff /\ [][DiffCall]_vars

\* the trees below the two given trees, which the store may have lost (a
\* given tree is an object the caller has already read)
Subtrees(lhs, rhs) ==
    {o \in OptClosure(lhs) \cup OptClosure(rhs) : o.otype = "tree"}
    \ ((IF lhs.some THEN {lhs.val} ELSE {}) \cup (IF rhs.some THEN {rhs.val} ELSE {}))

\* a diff over a store from which some of the subtrees are missing
InitDiffLossy ==
    /\ pc = "idle"
    /\ fn = "get_changed_paths_between_trees"
    /\ \E k \in 0..MaxDiffNodes :
          \E l \in OptTreesOfSize(k), r \in OptTreesUpTo(MaxDiffNodes - k) :
             args = [lhs |-> l, rhs |-> r]
    /\ \E lost \in SUBSET Subtrees(args.lhs, args.rhs) :
          store = (OptClosure(args.lhs) \cup OptClosure(args.rhs)) \ lost
    /\ ret = NoRet
    /\ obs = NoObs
    /\ calls = 0
    /\ repo = NoRepo

SpecDiffLossy == InitDiffLossy /\ [][DiffCall]_vars

(***************************************************************************)
(* The edit maps a rebuild_tree call is given.  The base tree and the      *)
(* values of the edit map hold at most MaxNodes entries together: a file   *)
(* value counts one, a tree value one more than the tree has entries.      *)
(***************************************************************************)
Paths == UNION {[1..k -> Names] : k \in 0..MaxPathLen}

RECURSIVE SumComps(_)
SumComps(S) ==
    IF S = {} THEN 0
    ELSE LET p == CHOOSE q \in S : TRUE IN Len(p) + SumComps(S \ {p})

RECURSIVE PathSetsOf(_)
\* the sets of at most n paths
PathSetsOf(n) ==
    IF n = 0 THEN {{}}
    ELSE LET prev == PathSetsOf(n - 1)
         IN prev \cup {S \cup {p} : S \in prev, p \in Paths}

PathSets == {S \in PathSetsOf(MaxEdits) : SumComps(S) <= MaxPathComps}

EditValues(c) ==
    IF c = 0 THEN {None}
    ELSE (IF c = 1 THEN {Some(e) : e \in FileEntries} ELSE {})
         \cup {Some(Entry(t, FILEMODE_TREE)) : t \in TreesOfSize[c - 1]}

RECURSIVE SumCosts(_, _)
SumCosts(cs, S) ==
    IF S = {} THEN 0
    ELSE LET p == CHOOSE q \in S : TRUE IN cs[p] + SumCosts(cs, S \ {p})

\* the ways to spend at most c entries on the values of the paths S
CostsUpTo(S, c) == {cs \in [S -> 0..c] : SumCosts(cs, S) <= c}

RECURSIVE EditMaps(_, _)
\* the edit maps over the paths S whose values cost cs
EditMaps(S, cs) ==
    IF S = {} THEN {<<>>}
    ELSE LET p == CHOOSE q \in S : TRUE
         IN {(p :> v) @@ m : v \in EditValues(cs[p]), m \in EditMaps(S \ {p}, cs)}

\* the objects an edit map names
EditClosure(entries) ==
    UNION {IF ~entries[p].some THEN {}
           ELSE IF entries[p].val.id.otype = "tree" THEN Closure(entries[p].val.id)
           ELSE {entries[p].val.id} : p \in DOMAIN entries}

InitRebuild ==
    /\ pc = "idle"
    /\ fn = "rebuild_tree"
    /\ \E S \in PathSets :
          \E cs \in CostsUpTo(S, MaxNodes) :
             \E m \in EditMaps(S, cs), b \in OptTreesUpTo(MaxNodes - SumCosts(cs, S)) :
                args = [tree |-> b, entries |-> m]
    /\ store = OptClosure(args.tree) \cup EditClosure(args.entries)
    /\ ret = NoRet
    /\ obs = NoObs
    /\ calls = 0
    /\ repo = NoRepo

RebuildCall ==
    /\ pc = "idle"
    /\ fn = "rebuild_tree"
    /\ \E ord \in Orders :
          \E r \in {rebuild_tree(store, ord, args.tree, args.entries)} :
             /\ ret' = [ok |-> r.ok, oid |-> r.oid]
             /\ store' = r.odb
             /\ obs' = [before |-> store, ord |-> ord,
                        writes |-> r.writes, failed |-> r.failed]
    /\ pc' = "done"
    /\ calls' = calls + 1
    /\ UNCHANGED repo
    /\ UNCHANGED <<fn, args>>

SpecRebuild == InitRebuild /\ [][RebuildCall]_vars

\* edit values as a caller may get them wrong: besides the values above, a
\* blob under the tree mode and a tree under a file mode
AnyEditValues(c) ==
    EditValues(c)
    \cup (IF c = 1 THEN {Some(Entry(b, FILEMODE_TREE)) : b \in Blobs} ELSE {})
    \cup (IF c >= 1 THEN {Some(Entry(t, FILEMODE_BLOB)) : t \in TreesOfSize[c - 1]} ELSE {})

RECURSIVE AnyEditMaps(_, _)
\* the edit maps over the paths S whose values, right or wrong, cost cs
AnyEditMaps(S, cs) ==
    IF S = {} THEN {<<>>}
    ELSE LET p == CHOOSE q \in S : TRUE
         IN {(p :> v) @@ m : v \in AnyEditValues(cs[p]), m \in AnyEditMaps(S \ {p}, cs)}

\* what a store may lack: nothing, one of the objects the call refers to
\* (the base tree itself is an object the caller has already read), or room
Damages(tree, entries) ==
    {[lost |-> {}, quota |-> {}]}
    \cup {[lost |-> {o}, quota |-> {}] :
        o \in (OptClosure(tree) \cup EditClosure(entries))
               \ (IF tree.some THEN {tree.val} ELSE {})}
    \cup {[lost |-> {}, quota |-> {Quota(n)}] : n \in 0..MaxQuota}

\* a rebuild, of edit values right or wrong, over a store that may lack an
\* object or room
InitRebuildLossy ==
    /\ pc = "idle"
    /\ fn = "rebuild_tree"
    /\ \E S \in PathSets :
          \E cs \in CostsUpTo(S, MaxLossyNodes) :
             \E m \in AnyEditMaps(S, cs), b \in OptTreesUpTo(MaxLossyNodes - SumCosts(cs, S)) :
                args = [tree |-> b, entries |-> m]
    /\ \E d \in Damages(args.tree, args.entries) :
          store = ((OptClosure(args.tree) \cup EditClosure(args.entries)) \ d.lost)
                  \cup d.quota
    /\ ret = NoRet
    /\ obs = NoObs
    /\ calls = 0
    /\ repo = NoRepo

SpecRebuildLossy == InitRebuildLossy /\ [][RebuildCall]_vars

InitFilter ==
    /\ pc = "idle"
    /\ fn = "filter_tree"
    /\ \E t \in TreesUpTo(MaxNodes), P \in PathSets : args = [tree |-> t, paths |-> P]
    /\ store = Closure(args.tree)
    /\ ret = NoRet
    /\ obs = NoObs
    /\ calls = 0
    /\ repo = NoRepo

FilterCall ==
    /\ pc = "idle"
    /\ fn = "filter_tree"
    /\ \E ord \in Orders :
          \E r \in {filter_tree(store, ord, args.tree, args.paths)} :
             /\ ret' = [ok |-> r.ok, oid |-> r.oid]
             /\ store' = r.odb
             /\ obs' = [before |-> store, ord |-> ord,
                        writes |-> r.writes, failed |-> r.failed]
    /\ pc' = "done"
    /\ calls' = calls + 1
    /\ UNCHANGED repo
    /\ UNCHANGED <<fn, args>>

SpecFilter == InitFilter /\ [][FilterCall]_vars

(***************************************************************************)
(* Calls made one after the other on one store: the caller asks for a call *)
(* on objects the store holds, the call is made, and so on.                *)
(***************************************************************************)
TreesIn(odb) == {o \in odb : o.otype = "tree"}
OptTreesIn(odb) == {None} \cup {Some(t) : t \in TreesIn(odb)}

\* an object of the store as the value of an edit
EntryOf(o) == Entry(o, IF o.otype = "tree" THEN FILEMODE_TREE ELSE FILEMODE_BLOB)

SessionPaths == UNION {[1..k -> Names] : k \in 1..MaxSessionPathLen}

\* the edit maps of one path over the objects of the store
SessionEditMaps(odb) ==
    {(p :> v) : p \in SessionPaths,
                v \in {None} \cup {Some(EntryOf(o)) : o \in odb}}

InitSession ==
    /\ pc = "done"
    /\ fn = "none"
    /\ args = <<>>
    /\ \E t \in TreesUpTo(MaxSessionNodes) : store = Closure(t)
    /\ ret = NoRet
    /\ obs = NoObs
    /\ calls = 0
    /\ repo = NoRepo

\* the caller asks for the next call
Request ==
    /\ pc = "done"
    /\ calls < MaxCalls
    /\ \/ /\ fn' = "get_changed_paths_between_trees"
          /\ \E l, r \in OptTreesIn(store) : args' = [lhs |-> l, rhs |-> r]
       \/ /\ fn' = "rebuild_tree"
          /\ \E b \in OptTreesIn(store), m \in SessionEditMaps(store) :
                args' = [tree |-> b, entries |-> m]
       \/ /\ fn' = "filter_tree"
          /\ \E t \in TreesIn(store), p \in SessionPaths :
                args' = [tree |-> t, paths |-> {p}]
    /\ pc' = "idle"
    /\ ret' = NoRet
    /\ obs' = NoObs
    /\ UNCHANGED <<store, calls, repo>>

SessionNext == Request \/ DiffCall \/ RebuildCall \/ FilterCall
SpecSession == InitSession /\ [][SessionNext]_vars

Init == InitDiff \/ InitRebuild \/ InitFilter
Next == DiffCall \/ RebuildCall \/ FilterCall
Spec == Init /\ [][Next]_vars

(***************************************************************************)
(* Commits, and the visible state of a repository: the commit HEAD points  *)
(* to, the state of the repository (clean, or in the middle of a rebase)   *)
(* and the tree that the index and the working directory hold.             *)
(***************************************************************************)
Commit(tree, parents, author, committer, time, message) ==
    [otype |-> "commit",
     data |-> [tree |-> tree, parents |-> parents, author |-> author,
               committer |-> committer, time |-> time, message |-> message]]

\* Repository::find_commit, Repository::find_annotated_commit
find_commit(odb, id) == [ok |-> id \in odb /\ id.otype = "commit", commit |-> id]
find_annotated_commit(odb, id) == find_commit(odb, id)

\* Commit::parent_count, Commit::parent_id (counted from 0), Commit::parent_ids
parent_count(commit) == Len(commit.data.parents)
parent_id(commit, i) == commit.data.parents[i + 1]
parent_ids(commit) == commit.data.parents

\* ops::head_id
head_id_of(r) == r.head

\* ops::is_dirty: the repository is in the middle of an operation, or the
\* index or the working directory differ from the tree of HEAD
is_dirty(r) == r.state # "Clean" \/ r.workdir # r.head.data.tree

RECURSIVE Ancestors(_)
\* a commit and the commits it descends from
Ancestors(commit) ==
    {commit} \cup UNION {Ancestors(parent_id(commit, i)) : i \in 0..(parent_count(commit) - 1)}

RECURSIVE OldestFirst(_)
\* commits in an order in which every commit comes after its ancestors
OldestFirst(S) ==
    IF S = {} THEN <<>>
    ELSE LET c == CHOOSE x \in S : \A y \in S \ {x} : y \notin Ancestors(x)
         IN <<c>> \o OldestFirst(S \ {c})

(***************************************************************************)
(* git2::Rebase.  An in-memory rebase keeps its index in the rebase object *)
(* and writes objects only; a rebase that is not in memory checks out onto *)
(* and every step, moves HEAD and records its progress in the repository.  *)
(***************************************************************************)
NoIndex == [entries |-> EmptyEntries, conflicts |-> {}, blobs |-> {}]

\* the blob of a content merge of two blobs
MergedBlob == BlobOid(0)

\* the three-way merge of one name: ancestor a, ours o, theirs t; automerge
\* says whether the contents of two files that both changed can be merged
merge_entry(a, o, t, automerge) ==
    IF o = t THEN [entry |-> o, conflict |-> FALSE]
    ELSE IF a = o THEN [entry |-> t, conflict |-> FALSE]
    ELSE IF a = t THEN [entry |-> o, conflict |-> FALSE]
    ELSE IF o.some /\ t.some /\ automerge
    THEN [entry |-> Some(Entry(MergedBlob, o.val.mode)), conflict |-> FALSE]
    ELSE [entry |-> o, conflict |-> TRUE]

\* git_merge_trees over trees of files: the merged index
merge_trees(ancestor, ours, theirs, automerge) ==
    LET names == DOMAIN ancestor \cup DOMAIN ours \cup DOMAIN theirs
        m == [n \in names |-> merge_entry(get_entry(ancestor, n), get_entry(ours, n),
                                          get_entry(theirs, n), automerge)]
        kept == {n \in names : m[n].entry.some}
    IN [entries |-> [n \in kept |-> m[n].entry.val],
        conflicts |-> {n \in names : m[n].conflict},
        blobs |-> {m[n].entry.val.id : n \in kept} \cap {MergedBlob}]

\* the commits a rebase of branch onto onto replays: those of branch that
\* upstream does not have, merges left out, oldest first
rebase_operations(branch, upstream) ==
    OldestFirst({c \in Ancestors(branch) \ Ancestors(upstream) : parent_count(c) <= 1})

\* Repository::rebase
rebase_init(r, branch, upstream, onto, opts) ==
    LET rebase == [operations |-> rebase_operations(branch, upstream), current |-> 0,
                   last_commit |-> onto, inmemory |-> opts.inmemory,
                   index |-> NoIndex, orig_head |-> r.head]
    IN IF opts.inmemory THEN [ok |-> TRUE, repo |-> r, rebase |-> rebase]
       ELSE IF is_dirty(r) THEN [ok |-> FALSE, repo |-> r, rebase |-> rebase]
       ELSE [ok |-> TRUE, rebase |-> rebase,
             repo |-> [head |-> onto, state |-> "RebaseMerge", workdir |-> onto.data.tree]]

\* Rebase::next: the next commit is merged onto the last one
rebase_next(odb, r, rebase, automerge) ==
    IF rebase.current >= Len(rebase.operations)
    THEN [some |-> FALSE, ok |-> TRUE, odb |-> odb, repo |-> r, rebase |-> rebase]
    ELSE LET commit == rebase.operations[rebase.current + 1]
             theirs == find_tree(odb, commit.data.tree)
             ours == find_tree(odb, rebase.last_commit.data.tree)
             parent == IF parent_count(commit) = 0 THEN [ok |-> TRUE, tree |-> EmptyTreeOid]
                       ELSE find_tree(odb, parent_id(commit, 0).data.tree)
         IN IF ~theirs.ok \/ ~ours.ok \/ ~parent.ok
            THEN [some |-> TRUE, ok |-> FALSE, odb |-> odb, repo |-> r, rebase |-> rebase]
            ELSE LET index == merge_trees(parent.tree.data, ours.tree.data,
                                          theirs.tree.data, automerge)
                 IN [some |-> TRUE, ok |-> TRUE, odb |-> odb \cup index.blobs,
                     repo |-> IF rebase.inmemory THEN r
                              ELSE [r EXCEPT !.workdir = TreeOid(index.entries)],
                     rebase |-> [rebase EXCEPT !.current = @ + 1, !.index = index]]

\* variant: an index never reports a conflict
has_conflicts_never(index) == FALSE

\* Rebase::inmemory_index, Index::has_conflicts
inmemory_index(rebase) == rebase.index
has_conflicts(index) == index.conflicts # {}

\* Rebase::commit with the author and the message of the replayed commit
rebase_commit(odb, r, rebase, committer) ==
    LET commit == rebase.operations[rebase.current]
        tree_id == TreeOid(rebase.index.entries)
        new == Commit(tree_id, <<rebase.last_commit>>, commit.data.author,
                      committer.name, committer.time, commit.data.message)
    IN IF has_conflicts(rebase.index)
       THEN [ok |-> FALSE, class |-> "Rebase", code |-> "Unmerged", id |-> ZeroOid,
             odb |-> odb, repo |-> r, rebase |-> rebase]
       ELSE IF tree_id = rebase.last_commit.data.tree
       THEN [ok |-> FALSE, class |-> "Rebase", code |-> "Applied", id |-> ZeroOid,
             odb |-> odb \cup {tree_id}, repo |-> r, rebase |-> rebase]
       ELSE [ok |-> TRUE, class |-> "None", code |-> "Ok", id |-> new,
             odb |-> odb \cup {tree_id, new},
             repo |-> IF rebase.inmemory THEN r ELSE [r EXCEPT !.head = new],
             rebase |-> [rebase EXCEPT !.last_commit = new]]

\* Rebase::abort
rebase_abort(r, rebase) ==
    IF rebase.inmemory THEN r
    ELSE [head |-> rebase.orig_head, state |-> "Clean",
          workdir |-> rebase.orig_head.data.tree]

\* Rebase::finish
rebase_finish(r, rebase) ==
    IF rebase.inmemory THEN r ELSE [r EXCEPT !.state = "Clean"]

(***************************************************************************)
(* ops::cherry_pick.  env is what the call meets outside its arguments:    *)
(* whether contents merge, and whether the configuration names a user.     *)
(***************************************************************************)
\* variant: the rebase is not asked to stay in memory
rebase_options_on_disk == [inmemory |-> FALSE]

\* git2::RebaseOptions::new().inmemory(true)
rebase_options == [inmemory |-> TRUE]

\* variant: the base of a merge commit is its first parent, whatever head_id
cherry_base_id_first_parent(cherry_commit, cherry_id, head_id) ==
    IF parent_count(cherry_commit) = 0 THEN cherry_id
    ELSE parent_id(cherry_commit, 0)

\* the commit the cherry is taken to be based on
cherry_base_id(cherry_commit, cherry_id, head_id) ==
    IF parent_count(cherry_commit) = 0 THEN cherry_id
    ELSE IF parent_count(cherry_commit) = 1 THEN parent_id(cherry_commit, 0)
    ELSE IF \E i \in 0..(parent_count(cherry_commit) - 1) : parent_id(cherry_commit, i) = head_id
         THEN head_id
    ELSE parent_id(cherry_commit, 0)

CherryErr(code, odb, r) ==
    [ok |-> FALSE, oid |-> ZeroOid, code |-> code, odb |-> odb, repo |-> r]

RECURSIVE cherry_pick_loop(_, _, _, _, _, _)
\* while let Some(op) = rebase.next(), then rebase.finish
cherry_pick_loop(odb, r, rebase, tip_id, cherry_commit, env) ==
    LET op == rebase_next(odb, r, rebase, env.automerge)
    IN IF ~op.some
       THEN [ok |-> TRUE, oid |-> tip_id, code |-> "Ok", odb |-> odb,
             repo |-> rebase_finish(r, rebase)]
       ELSE IF ~op.ok
       THEN CherryErr("Error", op.odb, rebase_abort(op.repo, op.rebase))
       ELSE IF has_conflicts(inmemory_index(op.rebase))
       THEN CherryErr("Unmerged", op.odb, op.repo)
       ELSE IF ~env.signature
       THEN CherryErr("NotFound", op.odb, op.repo)
       ELSE LET sig == [name |-> "user", time |-> cherry_commit.data.time]
                made == rebase_commit(op.odb, op.repo, op.rebase, sig)
            IN IF made.ok
               THEN cherry_pick_loop(made.odb, made.repo, made.rebase, made.id,
                                     cherry_commit, env)
               ELSE IF made.class = "Rebase" /\ made.code = "Applied"
               THEN [ok |-> TRUE, oid |-> tip_id, code |-> "Ok", odb |-> made.odb,
                     repo |-> rebase_abort(made.repo, made.rebase)]
               ELSE CherryErr(made.code, made.odb, rebase_abort(made.repo, made.rebase))

cherry_pick(odb, r, head_id, cherry_id, env) ==
    LET cherry_commit == find_commit(odb, cherry_id)
    IN IF ~cherry_commit.ok THEN CherryErr("NotFound", odb, r)
       ELSE LET base_id == cherry_base_id(cherry_commit.commit, cherry_id, head_id)
            IN IF base_id = head_id
               THEN [ok |-> TRUE, oid |-> cherry_id, code |-> "Ok", odb |-> odb, repo |-> r]
               ELSE IF \/ ~find_annotated_commit(odb, base_id).ok
                       \/ ~find_annotated_commit(odb, head_id).ok
                       \/ ~find_annotated_commit(odb, cherry_id).ok
               THEN CherryErr("NotFound", odb, r)
               ELSE LET started == rebase_init(r, cherry_id, base_id, head_id, rebase_options)
                    IN IF ~started.ok THEN CherryErr("Error", odb, started.repo)
                       ELSE cherry_pick_loop(odb, started.repo, started.rebase, head_id,
                                             cherry_commit.commit, env)

\* trees of files
FlatTrees ==
    {TreeOid(f) : f \in UNION {[S -> {Entry(b, FILEMODE_BLOB) : b \in Blobs}] :
                                   S \in SUBSET Names}}
Files(tree) == Cardinality(DOMAIN tree.data)

\* a history: a root r, its children x and y, the child w of y and the merge
\* m of x and w
History(tr, tx, ty, tw) ==
    LET r == Commit(tr, <<>>, "author", "author", 1, "r")
        x == Commit(tx, <<r>>, "author", "author", 2, "x")
        y == Commit(ty, <<r>>, "author", "author", 3, "y")
        w == Commit(tw, <<y>>, "author", "author", 4, "w")
        m == Commit(tx, <<x, w>>, "author", "author", 5, "m")
    IN [r |-> r, x |-> x, y |-> y, w |-> w, m |-> m]

CommitsOf(h) == {h.r, h.x, h.y, h.w, h.m}
\* the id of a commit the repository does not hold
MissingCommit == Commit(EmptyTreeOid, <<>>, "nobody", "nobody", 0, "missing")

InitCherryPick ==
    /\ pc = "idle"
    /\ fn = "cherry_pick"
    /\ \E tr, tx, ty, tw \in FlatTrees :
          /\ Files(tr) + Files(tx) + Files(ty) + Files(tw) <= MaxCommitFiles
          /\ LET h == History(tr, tx, ty, tw)
             IN /\ \E head_id, cherry_id \in CommitsOf(h) \cup {MissingCommit} :
                      args = [head_id |-> head_id, cherry_id |-> cherry_id]
                /\ store = CommitsOf(h) \cup UNION {Closure(c.data.tree) : c \in CommitsOf(h)}
                /\ \E head \in {h.r, h.m}, workdir \in {tr, tx} :
                      repo = [head |-> head, state |-> "Clean", workdir |-> workdir]
    /\ ret = NoRet
    /\ obs = NoObs
    /\ calls = 0

CherryPickCall ==
    /\ pc = "idle"
    /\ fn = "cherry_pick"
    /\ \E env \in [automerge : BOOLEAN, signature : BOOLEAN] :
          \E r \in {cherry_pick(store, repo, args.head_id, args.cherry_id, env)} :
             /\ ret' = [ok |-> r.ok, oid |-> r.oid, code |-> r.code]
             /\ store' = r.odb
             /\ repo' = r.repo
             /\ obs' = [before |-> store, repo |-> repo, env |-> env]
    /\ pc' = "done"
    /\ calls' = calls + 1
    /\ UNCHANGED <<fn, args>>

SpecCherryPick == InitCherryPick /\ [][CherryPickCall]_vars

(***************************************************************************)
(* ops::squash and ops::commit.  env is what the call meets outside its    *)
(* arguments: whether contents merge, and the signer it is given, if any.  *)
(***************************************************************************)
Signers == {"none", "signs", "fails"}

\* a commit with the signature that commit_signed stores in its header
SignedCommit(c) ==
    [otype |-> "commit", data |-> [gpgsig |-> "signed"] @@ c.data]

\* ops::commit
ops_commit(odb, author, committer, time, message, tree, parents, sign) ==
    IF sign = "none"
    THEN [ok |-> TRUE, code |-> "Ok",
          id |-> Commit(tree, parents, author, committer, time, message),
          odb |-> odb \cup {Commit(tree, parents, author, committer, time, message)}]
    ELSE IF sign = "fails"
    THEN [ok |-> FALSE, code |-> "GenericError", id |-> ZeroOid, odb |-> odb]
    ELSE [ok |-> TRUE, code |-> "Ok",
          id |-> SignedCommit(Commit(tree, parents, author, committer, time, message)),
          odb |-> odb \cup {SignedCommit(Commit(tree, parents, author, committer,
                                                time, message))}]

\* variant: the squashed commit keeps every parent of into_id
onto_commits_all(into_commit) == parent_ids(into_commit)

\* the parents of the squashed commit: the first parent of into_id, if any
onto_commits(into_commit) ==
    IF 0 < parent_count(into_commit) THEN <<parent_id(into_commit, 0)>> ELSE <<>>

\* the commit whose tree is the ancestor of the merge
squash_base_commit(head_commit) ==
    IF 0 < parent_count(head_commit) THEN parent_id(head_commit, 0) ELSE head_commit

SquashErr(code, odb) == [ok |-> FALSE, oid |-> ZeroOid, code |-> code, odb |-> odb]

squash(odb, head_id, into_id, env) ==
    LET head_commit == find_commit(odb, head_id)
        into_commit == find_commit(odb, into_id)
        committed(new) ==
            IF new.ok THEN [ok |-> TRUE, oid |-> new.id, code |-> "Ok", odb |-> new.odb]
            ELSE SquashErr(new.code, new.odb)
        merged(result_index) ==
            IF has_conflicts(result_index) THEN SquashErr("Unmerged", odb)
            ELSE committed(ops_commit(
                     odb \cup result_index.blobs \cup {TreeOid(result_index.entries)},
                     into_id.data.author, into_id.data.committer, into_id.data.time,
                     into_id.data.message, TreeOid(result_index.entries),
                     onto_commits(into_id), env.sign))
    IN IF ~head_commit.ok \/ ~find_tree(odb, head_id.data.tree).ok
       THEN SquashErr("NotFound", odb)
       ELSE IF ~find_tree(odb, squash_base_commit(head_id).data.tree).ok
       THEN SquashErr("NotFound", odb)
       ELSE IF ~into_commit.ok \/ ~find_tree(odb, into_id.data.tree).ok
       THEN SquashErr("NotFound", odb)
       ELSE merged(merge_trees(squash_base_commit(head_id).data.tree.data,
                               into_id.data.tree.data, head_id.data.tree.data,
                               env.automerge))

InitSquash ==
    /\ pc = "idle"
    /\ fn = "squash"
    /\ \E tr, tx, ty, tw \in FlatTrees :
          /\ Files(tr) + Files(tx) + Files(ty) + Files(tw) <= MaxCommitFiles
          /\ LET h == History(tr, tx, ty, tw)
             IN /\ \E head_id, into_id \in CommitsOf(h) \cup {MissingCommit} :
                      args = [head_id |-> head_id, into_id |-> into_id]
                /\ store = CommitsOf(h) \cup UNION {Closure(c.data.tree) : c \in CommitsOf(h)}
                /\ repo = [head |-> h.m, state |-> "Clean", workdir |-> tx]
    /\ ret = NoRet
    /\ obs = NoObs
    /\ calls = 0

SquashCall ==
    /\ pc = "idle"
    /\ fn = "squash"
    /\ \E env \in [automerge : BOOLEAN, sign : Signers] :
          \E r \in {squash(store, args.head_id, args.into_id, env)} :
             /\ ret' = [ok |-> r.ok, oid |-> r.oid, code |-> r.code]
             /\ store' = r.odb
             /\ obs' = [before |-> store, repo |-> repo, env |-> env]
    /\ pc' = "done"
    /\ calls' = calls + 1
    /\ UNCHANGED <<fn, args, repo>>

SpecSquash == InitSquash /\ [][SquashCall]_vars

(***************************************************************************)
(* hooks::Hooks.  The hook of a repository is a program that may be there  *)
(* or not; when run it reads some lines of its standard input and exits    *)
(* with a code, or is ended by a signal.  The lines are handed to it       *)
(* through a pipe that holds PipeLines lines.                              *)
(***************************************************************************)
\* reference updates in one transaction
MaxRefs == 2
\* the highest exit code of a hook
MaxExitCode == 2
\* lines a pipe holds before a write to it has to wait for the reader
PipeLines == 1

SIGNAL_EXIT_CODE == 1

RefUpdates == {<<ZeroOid, BlobOid(1), "refs/heads/a">>, <<BlobOid(1), BlobOid(2), "refs/heads/b">>}
ChangedRefs == UNION {[1..k -> RefUpdates] : k \in 0..MaxRefs}

\* ExitStatus::code: the exit code, or nothing when a signal ended the hook
ExitStatuses == {Some(c) : c \in 0..MaxExitCode} \cup {None}
HookPrograms == [reads : 0..MaxRefs, status : ExitStatuses]

\* Hooks::find_hook: the executable of that name under the hooks directory
find_hook(r, name) ==
    IF name \in DOMAIN r.hooks THEN Some(r.hooks[name]) ELSE None

\* writeln!(stdin, "{} {} {}", old_oid, new_oid, ref_name) for each update
stdin_of(changed_refs) ==
    [i \in 1..Len(changed_refs) |->
        <<changed_refs[i][1], " ", changed_refs[i][2], " ", changed_refs[i][3], "\n">>]

\* process.stdin.write_all(stdin): what the hook does not read has to fit
\* in the pipe; a write to a pipe whose reader has exited fails (early says
\* that a hook that leaves input unread exits before the write)
write_all(hook, stdin, early) ==
    IF Len(stdin) = 0 \/ Len(stdin) <= hook.reads THEN TRUE
    ELSE IF Len(stdin) - hook.reads <= PipeLines THEN ~early
    ELSE FALSE

\* Hooks::run_hook: Ok(code), or the error of starting or feeding the hook
run_hook(r, name, stdin, early) ==
    LET hook_path == find_hook(r, name)
    IN IF ~hook_path.some THEN [ok |-> TRUE, code |-> 0]
       ELSE IF ~r.sh THEN [ok |-> FALSE, code |-> 0]
       ELSE IF ~write_all(hook_path.val, stdin, early) THEN [ok |-> FALSE, code |-> 0]
       ELSE [ok |-> TRUE,
             code |-> IF hook_path.val.status.some THEN hook_path.val.status.val
                      ELSE SIGNAL_EXIT_CODE]

run_reference_transaction_prepare(r, changed_refs, early) ==
    LET code == run_hook(r, "reference-transaction", stdin_of(changed_refs), early)
    IN IF ~code.ok THEN [ok |-> FALSE]
       ELSE IF code.code = 0 THEN [ok |-> TRUE]
       ELSE [ok |-> FALSE]

run_reference_transaction_committed(r, changed_refs, early) ==
    LET code == run_hook(r, "reference-transaction", stdin_of(changed_refs), early)
    IN IF ~code.ok THEN [ok |-> FALSE] ELSE [ok |-> TRUE]

run_reference_transaction_aborted(r, changed_refs, early) ==
    LET code == run_hook(r, "reference-transaction", stdin_of(changed_refs), early)
    IN IF ~code.ok THEN [ok |-> FALSE] ELSE [ok |-> TRUE]

HookCalls == {"run_reference_transaction_prepare", "run_reference_transaction_committed",
              "run_reference_transaction_aborted"}

InitHooks ==
    /\ pc = "idle"
    /\ fn \in HookCalls
    /\ \E changed_refs \in ChangedRefs : args = [changed_refs |-> changed_refs]
    /\ \E sh \in BOOLEAN :
          \/ repo = [hooks |-> <<>>, sh |-> sh]
          \/ \E hook \in HookPrograms :
                repo = [hooks |-> [n \in {"reference-transaction"} |-> hook], sh |-> sh]
    /\ store = {}
    /\ ret = NoRet
    /\ obs = NoObs
    /\ calls = 0

HookDone(r, early) ==
    /\ ret' = [ok |-> r.ok]
    /\ obs' = [early |-> early]
    /\ pc' = "done"
    /\ calls' = calls + 1
    /\ UNCHANGED <<fn, args, repo, store>>

PrepareCall ==
    /\ pc = "idle"
    /\ fn = "run_reference_transaction_prepare"
    /\ \E early \in BOOLEAN :
          HookDone(run_reference_transaction_prepare(repo, args.changed_refs, early), early)

CommittedCall ==
    /\ pc = "idle"
    /\ fn = "run_reference_transaction_committed"
    /\ \E early \in BOOLEAN :
          HookDone(run_reference_transaction_committed(repo, args.changed_refs, early), early)

AbortedCall ==
    /\ pc = "idle"
    /\ fn = "run_reference_transaction_aborted"
    /\ \E early \in BOOLEAN :
          HookDone(run_reference_transaction_aborted(repo, args.changed_refs, early), early)

HooksNext == PrepareCall \/ CommittedCall \/ AbortedCall

SpecHooks == InitHooks /\ [][HooksNext]_vars

(***************************************************************************)
(* Reading trees, for the statements below.                                *)
(***************************************************************************)
IsPrefix(p, q) == Len(p) <= Len(q) /\ SubSeq(q, 1, Len(p)) = p
IsProperPrefix(p, q) == Len(p) < Len(q) /\ IsPrefix(p, q)
Comparable(p, q) == IsPrefix(p, q) \/ IsPrefix(q, p)
Done(f) == pc = "done" /\ fn = f

\* the entry a tree holds at a path, if it holds one
HasEntry(odb, tree, p) == get_path(odb, tree, p).code = "Ok"
EntryAt(odb, tree, p) == get_path(odb, tree, p).entry.val
HasFile(odb, tree, p) == HasEntry(odb, tree, p) /\ entry_kind(EntryAt(odb, tree, p)) # "Tree"
HasDir(odb, tree, p) == HasEntry(odb, tree, p) /\ entry_kind(EntryAt(odb, tree, p)) = "Tree"
OptHasEntry(odb, tree, p) == tree.some /\ HasEntry(odb, tree.val, p)
OptHasFile(odb, tree, p) == tree.some /\ HasFile(odb, tree.val, p)
OptHasDir(odb, tree, p) == tree.some /\ HasDir(odb, tree.val, p)

RECURSIVE entry_paths(_, _, _)
\* the paths of all the entries of a tree, at every depth
entry_paths(odb, tree, prefix) ==
    UNION {{Append(prefix, n)}
           \cup (IF entry_kind(tree.data[n]) = "Tree" /\ find_tree(odb, tree.data[n].id).ok
                 THEN entry_paths(odb, tree.data[n].id, Append(prefix, n))
                 ELSE {}) : n \in DOMAIN tree.data}

RECURSIVE has_empty_subtree(_, _)
\* some directory entry of the tree, at some depth, resolves to a tree without entries
has_empty_subtree(odb, tree) ==
    \E n \in DOMAIN tree.data :
        /\ entry_kind(tree.data[n]) = "Tree"
        /\ find_tree(odb, tree.data[n].id).ok
        /\ \/ is_empty(tree.data[n].id)
           \/ has_empty_subtree(odb, tree.data[n].id)

\* the diff of the tree a rebuild was given against the tree it returned
DiffOfRebuild(ord) == get_changed_paths_between_trees(store, ord, args.tree, Some(ret.oid))

(***************************************************************************)
(* C1  Round trip.                                                         *)
(***************************************************************************)
ReadsBack(odb, tree, entries, p) ==
    IF entries[p].some
    THEN HasEntry(odb, tree, p) /\ EntryAt(odb, tree, p) = entries[p].val
    ELSE get_path(odb, tree, p).code = "NotFound"

PrefixFree(entries) == \A p, q \in DOMAIN entries : p # q => ~IsPrefix(p, q)

\* C1 as amended: after rebuild_tree succeeds on an edit map whose paths are
\* not empty and in which no path is a prefix of another, every path of the
\* map reads back from the result as the edit's (id, mode) for a Some edit
\* and as not found for a None edit.
C1_RoundTripPrefixFree ==
    (Done("rebuild_tree") /\ ret.ok /\ <<>> \notin DOMAIN args.entries
        /\ PrefixFree(args.entries))
    => \A p \in DOMAIN args.entries : ReadsBack(store, ret.oid, args.entries, p)

\* C1 as stated: the round trip for every edit map, maps in which one path
\* is a prefix of another included (the empty path, which names no entry,
\* left aside).
C1_RoundTripAnyMap ==
    (Done("rebuild_tree") /\ ret.ok)
    => \A p \in DOMAIN args.entries \ {<<>>} : ReadsBack(store, ret.oid, args.entries, p)

\* a prefix-free map that sets a nested path and deletes an entry the base has
C1_Witness ==
    /\ Done("rebuild_tree") /\ ret.ok /\ PrefixFree(args.entries)
    /\ \E p, q \in DOMAIN args.entries :
          /\ Len(p) >= 2 /\ args.entries[p].some
          /\ ~args.entries[q].some /\ OptHasEntry(store, args.tree, q)

(***************************************************************************)
(* C2  Deletion symmetry.                                                  *)
(***************************************************************************)
OnlyDeletes(p) == DOMAIN args.entries = {p} /\ ~args.entries[p].some

\* every directory entry on the way to p carries the plain tree mode
PlainAncestors(odb, tree, p) ==
    \A k \in 1..(Len(p) - 1) : EntryAt(odb, tree, SubSeq(p, 1, k)).mode = FILEMODE_TREE

\* C2 as amended: for a path p at which T holds a non-tree entry below
\* directory entries of mode 040000, the diff of T against
\* rebuild_tree(T, {p: None}) is exactly {p}.
C2_DeletionSymmetryOfFiles ==
    \A p \in Paths :
        (Done("rebuild_tree") /\ ret.ok /\ OnlyDeletes(p)
            /\ OptHasFile(store, args.tree, p)
            /\ PlainAncestors(store, args.tree.val, p))
        => \A ord \in Orders :
              DiffOfRebuild(ord).ok /\ DiffOfRebuild(ord).changed_paths = {p}

\* C2 as stated: the same for every path p that has an entry in T.
C2_DeletionSymmetryAnyEntry ==
    \A p \in Paths :
        (Done("rebuild_tree") /\ ret.ok /\ OnlyDeletes(p)
            /\ OptHasEntry(store, args.tree, p))
        => \A ord \in Orders :
              DiffOfRebuild(ord).ok /\ DiffOfRebuild(ord).changed_paths = {p}

\* the only file of a directory is deleted, so that the directory is pruned
C2_Witness ==
    \E p \in Paths :
        /\ Done("rebuild_tree") /\ ret.ok /\ OnlyDeletes(p) /\ Len(p) >= 2
        /\ OptHasFile(store, args.tree, p)
        /\ PlainAncestors(store, args.tree.val, p)
        /\ ~HasEntry(store, ret.oid, SubSeq(p, 1, 1))

(***************************************************************************)
(* C3  No empty subtree in the output.                                     *)
(***************************************************************************)
\* neither the base nor a value of the edit map holds or names an empty tree
NoEmptyTreeGiven ==
    /\ args.tree.some => ~has_empty_subtree(store, args.tree.val)
    /\ \A p \in DOMAIN args.entries :
          (args.entries[p].some /\ entry_kind(args.entries[p].val) = "Tree")
          => /\ ~is_empty(args.entries[p].val.id)
             /\ ~has_empty_subtree(store, args.entries[p].val.id)

\* C3 as amended: when neither the base tree nor a tree named by the edit
\* map holds an empty subtree or is one, the tree rebuild_tree returns has,
\* at every depth, no directory entry that resolves to a tree with no entry.
C3_NoEmptySubtreeMade ==
    (Done("rebuild_tree") /\ ret.ok /\ NoEmptyTreeGiven)
    => ~has_empty_subtree(store, ret.oid)

\* C3 as stated: no empty subtree in the output for every base and edit map.
C3_NoEmptySubtreeEver ==
    (Done("rebuild_tree") /\ ret.ok) => ~has_empty_subtree(store, ret.oid)

\* a directory of the base lost its last entry and is gone from the result
C3_Witness ==
    /\ Done("rebuild_tree") /\ ret.ok /\ NoEmptyTreeGiven
    /\ \E p \in DOMAIN args.entries :
          /\ Len(p) = 2 /\ ~args.entries[p].some
          /\ OptHasFile(store, args.tree, p)
          /\ ~HasEntry(store, ret.oid, SubSeq(p, 1, 1))

(***************************************************************************)
(* C4  Pruning.                                                            *)
(***************************************************************************)
\* an entry that is not a directory holding entries
IsTerminal(odb, tree, q) ==
    HasFile(odb, tree, q) \/ (HasDir(odb, tree, q) /\ is_empty(EntryAt(odb, tree, q).id))

\* the edit map sets nothing at, above or below d, the base holds entries
\* below d, and each file and each empty directory among them is deleted by
\* an edit at it or between it and d
DeletesAllUnder(d) ==
    /\ \A p \in DOMAIN args.entries : Comparable(p, d) => ~args.entries[p].some
    /\ \E q \in entry_paths(store, args.tree.val, <<>>) : IsProperPrefix(d, q)
    /\ \A q \in entry_paths(store, args.tree.val, <<>>) :
          (IsProperPrefix(d, q) /\ IsTerminal(store, args.tree.val, q))
          => \E p \in DOMAIN args.entries : IsProperPrefix(d, p) /\ IsPrefix(p, q)

\* C4: when the edit map deletes every entry under a directory d of the
\* base, at any depth, the result has no entry at d; as this holds of every
\* directory emptied in this way, it holds of the ancestors of d that the
\* deletions leave empty.
C4_Pruning ==
    \A d \in Paths :
        (Done("rebuild_tree") /\ ret.ok /\ OptHasDir(store, args.tree, d)
            /\ DeletesAllUnder(d))
        => ~HasEntry(store, ret.oid, d)

\* the deletion of a/b/c empties a/b, whose removal empties a
C4_Witness ==
    \E d \in Paths :
        /\ Done("rebuild_tree") /\ ret.ok /\ Len(d) = 2
        /\ OptHasDir(store, args.tree, d) /\ DeletesAllUnder(d)
        /\ DeletesAllUnder(SubSeq(d, 1, 1))
        /\ ~HasEntry(store, ret.oid, SubSeq(d, 1, 1))

(***************************************************************************)
(* Statements about get_changed_paths_between_trees.                       *)
(***************************************************************************)
DiffDone == Done("get_changed_paths_between_trees")
OptEntryPaths(odb, tree) == IF tree.some THEN entry_paths(odb, tree.val, <<>>) ELSE {}
DiffPaths == OptEntryPaths(store, args.lhs) \cup OptEntryPaths(store, args.rhs)
OptEntryAt(odb, tree, p) == EntryAt(odb, tree.val, p)

\* C5: the diff of a tree against itself, and of no tree against no tree,
\* is the empty set.
C5_DiffOfATreeWithItself ==
    (DiffDone /\ args.lhs = args.rhs) => (ret.ok /\ ret.changed_paths = {})

\* a tree with a file in a directory, compared with itself
C5_Witness ==
    /\ DiffDone /\ args.lhs = args.rhs /\ ret.ok
    /\ \E p \in DiffPaths : Len(p) = 2 /\ OptHasFile(store, args.lhs, p)

(***************************************************************************)
(* C8  File entries.                                                       *)
(***************************************************************************)
FileOnBothSides(p) == OptHasFile(store, args.lhs, p) /\ OptHasFile(store, args.rhs, p)

\* the two trees hold entries at the same paths and differ in nothing but
\* the mode of the file at p (and so in the ids of the directories above p)
OnlyModeOfFileDiffers(p) ==
    /\ FileOnBothSides(p)
    /\ OptEntryAt(store, args.lhs, p).id = OptEntryAt(store, args.rhs, p).id
    /\ OptEntryAt(store, args.lhs, p).mode # OptEntryAt(store, args.rhs, p).mode
    /\ OptEntryPaths(store, args.lhs) = OptEntryPaths(store, args.rhs)
    /\ \A q \in DiffPaths \ {p} :
          IF IsPrefix(q, p)
          THEN OptEntryAt(store, args.lhs, q).mode = OptEntryAt(store, args.rhs, q).mode
          ELSE OptEntryAt(store, args.lhs, q) = OptEntryAt(store, args.rhs, q)

\* C8: a path that is a non-tree entry on both sides is in the result
\* exactly when the two entries differ in id or in mode; when the trees
\* differ only in the mode of one file, the result is that one path.
C8_FileEntries ==
    (DiffDone /\ ret.ok)
    => \A p \in DiffPaths :
          /\ FileOnBothSides(p)
             => (p \in ret.changed_paths
                 <=> (\/ OptEntryAt(store, args.lhs, p).id # OptEntryAt(store, args.rhs, p).id
                      \/ OptEntryAt(store, args.lhs, p).mode # OptEntryAt(store, args.rhs, p).mode))
          /\ OnlyModeOfFileDiffers(p) => ret.changed_paths = {p}

\* only the executable bit of a file in a directory changed
C8_Witness ==
    /\ DiffDone /\ ret.ok
    /\ \E p \in DiffPaths :
          /\ Len(p) = 2 /\ OnlyModeOfFileDiffers(p)
          /\ OptEntryAt(store, args.lhs, p).mode = FILEMODE_BLOB
          /\ OptEntryAt(store, args.rhs, p).mode = FILEMODE_BLOB_EXECUTABLE
          /\ ret.changed_paths = {p}

(***************************************************************************)
(* C9  Directory against directory.                                        *)
(***************************************************************************)
DirOnBothSides(d) == OptHasDir(store, args.lhs, d) /\ OptHasDir(store, args.rhs, d)
FindsAt(d) == {f \in obs.finds : f[1] = d}

\* C9: for a path that is a subtree entry on both sides, the two subtrees
\* are looked up exactly when their ids differ, the path itself is in the
\* result exactly when the modes differ, and with equal id and mode nothing
\* is looked up or reported at or below the path.
C9_DirectoryAgainstDirectory ==
    (DiffDone /\ ret.ok)
    => \A d \in DiffPaths :
          DirOnBothSides(d)
          => LET l == OptEntryAt(store, args.lhs, d)
                 r == OptEntryAt(store, args.rhs, d)
             IN /\ FindsAt(d) = (IF l.id # r.id THEN {<<d, l.id>>, <<d, r.id>>} ELSE {})
                /\ (d \in ret.changed_paths <=> l.mode # r.mode)
                /\ l = r => /\ \A f \in obs.finds : ~IsPrefix(d, f[1])
                            /\ \A p \in ret.changed_paths : ~IsPrefix(d, p)

\* directories of different id and different mode: the path of the
\* directory and a path inside it are reported
C9_Witness ==
    /\ DiffDone /\ ret.ok
    /\ \E d \in DiffPaths :
          /\ DirOnBothSides(d)
          /\ OptEntryAt(store, args.lhs, d).id # OptEntryAt(store, args.rhs, d).id
          /\ OptEntryAt(store, args.lhs, d).mode # OptEntryAt(store, args.rhs, d).mode
          /\ d \in ret.changed_paths
          /\ \E p \in ret.changed_paths : IsProperPrefix(d, p)
          /\ Cardinality(FindsAt(d)) = 2

(***************************************************************************)
(* C10  Directory against nothing.                                         *)
(***************************************************************************)
\* d is a subtree entry of tree and the other tree has no entry at d
DirOnOneSide(tree, other, d) ==
    /\ OptHasDir(store, tree, d)
    /\ ~OptHasEntry(store, other, d)

FilesUnder(tree, d) ==
    {q \in OptEntryPaths(store, tree) : IsProperPrefix(d, q) /\ OptHasFile(store, tree, q)}

\* C10: when a path is a subtree entry on one side and no entry on the
\* other, every non-tree path inside the subtree, at any depth, is in the
\* result and the path of the directory is not.
C10_DirectoryAgainstNothing ==
    (DiffDone /\ ret.ok)
    => \A d \in DiffPaths :
          /\ DirOnOneSide(args.lhs, args.rhs, d)
             => (d \notin ret.changed_paths /\ FilesUnder(args.lhs, d) \subseteq ret.changed_paths)
          /\ DirOnOneSide(args.rhs, args.lhs, d)
             => (d \notin ret.changed_paths /\ FilesUnder(args.rhs, d) \subseteq ret.changed_paths)

\* an added directory that holds a file in a directory of its own
C10_Witness ==
    /\ DiffDone /\ ret.ok
    /\ \E d \in DiffPaths :
          /\ Len(d) = 1 /\ DirOnOneSide(args.rhs, args.lhs, d)
          /\ \E q \in FilesUnder(args.rhs, d) : Len(q) = 3 /\ q \in ret.changed_paths
          /\ d \notin ret.changed_paths

(***************************************************************************)
(* Statements about filter_tree.                                           *)
(***************************************************************************)
\* the non-tree entries of a tree, as (path, id)
Leaves(odb, tree) ==
    {<<q, EntryAt(odb, tree, q).id>> : q \in {x \in entry_paths(odb, tree, <<>>) : HasFile(odb, tree, x)}}

\* C6: the non-tree entries of filter_tree(T, P) are exactly the non-tree
\* entries of T at or under a path of P (the empty path names no entry).
C6_FilterKeepsTheRequestedPaths ==
    (Done("filter_tree") /\ ret.ok /\ ~has_empty_subtree(obs.before, args.tree))
    => Leaves(store, ret.oid)
       = {l \in Leaves(store, args.tree) :
             \E p \in args.paths \ {<<>>} : IsPrefix(p, l[1])}

\* C7: a requested path that has no entry in T changes nothing: with it and
\* without it filter_tree succeeds and returns the same tree.
C7_FilterIgnoresAbsentPaths ==
    (Done("filter_tree") /\ ~has_empty_subtree(obs.before, args.tree))
    => \A q \in args.paths :
          ~HasEntry(obs.before, args.tree, q)
          => \A ord \in Orders :
                LET without == filter_tree(obs.before, ord, args.tree, args.paths \ {q})
                IN ret.ok /\ without.ok /\ without.oid = ret.oid

(***************************************************************************)
(* C11  A file against a directory.                                        *)
(***************************************************************************)
\* p is a non-tree entry of ftree and a subtree entry of dtree
TypeChange(ftree, dtree, p) == OptHasFile(store, ftree, p) /\ OptHasDir(store, dtree, p)

\* the entries of a tree below d, directories included
EntriesUnder(tree, d) == {q \in OptEntryPaths(store, tree) : IsProperPrefix(d, q)}

\* the reported paths at or below p
ReportedAtOrBelow(p) == {q \in ret.changed_paths : IsPrefix(p, q)}

\* C11 as amended: when a path is a non-tree entry on one side and a subtree
\* entry on the other, the paths reported at or below it are the path itself
\* and every non-tree path inside the subtree, and no other; the directories
\* inside the subtree are not reported.
C11_TypeChangeReportsFiles ==
    (DiffDone /\ ret.ok)
    => \A p \in DiffPaths :
          /\ TypeChange(args.lhs, args.rhs, p)
             => ReportedAtOrBelow(p) = {p} \cup FilesUnder(args.rhs, p)
          /\ TypeChange(args.rhs, args.lhs, p)
             => ReportedAtOrBelow(p) = {p} \cup FilesUnder(args.lhs, p)

\* C11 as stated: the path itself and every path inside the subtree side,
\* the paths of directories included, are reported.
C11_TypeChangeReportsEveryPath ==
    (DiffDone /\ ret.ok)
    => \A p \in DiffPaths :
          /\ TypeChange(args.lhs, args.rhs, p)
             => ({p} \cup EntriesUnder(args.rhs, p)) \subseteq ret.changed_paths
          /\ TypeChange(args.rhs, args.lhs, p)
             => ({p} \cup EntriesUnder(args.lhs, p)) \subseteq ret.changed_paths

\* a file replaced by a directory that holds a file in a directory of its own
C11_Witness ==
    /\ DiffDone /\ ret.ok
    /\ \E p \in DiffPaths :
          /\ Len(p) = 1 /\ TypeChange(args.lhs, args.rhs, p)
          /\ p \in ret.changed_paths
          /\ \E q \in FilesUnder(args.rhs, p) : Len(q) = 3 /\ q \in ret.changed_paths

(***************************************************************************)
(* C12  The direction of the diff.                                         *)
(***************************************************************************)
\* the same two trees compared the other way round
DiffBack(ord) == get_changed_paths_between_trees(store, ord, args.rhs, args.lhs)

\* C12: get_changed_paths_between_trees(a, b) and
\* get_changed_paths_between_trees(b, a) return the same set, for all
\* optional trees a and b and whatever the order of the entry names.
C12_DirectionIndependent ==
    DiffDone
    => \A ord \in Orders :
          /\ DiffBack(ord).ok = ret.ok
          /\ DiffBack(ord).changed_paths = ret.changed_paths

\* a directory holding a file on the left against a file of the same name
\* on the right, beside a file that only the right has
C12_Witness ==
    /\ DiffDone /\ ret.ok
    /\ \E p, q \in DiffPaths :
          /\ TypeChange(args.rhs, args.lhs, p)
          /\ FilesUnder(args.lhs, p) # {}
          /\ OptHasFile(store, args.rhs, q) /\ ~OptHasEntry(store, args.lhs, q)
          /\ {p, q} \subseteq ret.changed_paths
    /\ \A ord \in Orders : DiffBack(ord).changed_paths = ret.changed_paths

(***************************************************************************)
(* C13  A failed lookup fails the whole diff.                              *)
(***************************************************************************)
\* the lookups of the call that failed
FailedFinds == {f \in obs.finds : ~find_tree(store, f[2]).ok}

\* C13: the diff returns an error exactly when a find_tree call of the
\* traversal failed, at whatever depth, and then it returns no set of paths,
\* whatever had been pushed to the accumulator before the failure.
C13_AllOrNothing ==
    DiffDone
    => /\ ret.ok <=> FailedFinds = {}
       /\ ~ret.ok => ret.changed_paths = {}

\* the lookup of a directory two levels down fails after a path was pushed
C13_Witness ==
    /\ DiffDone /\ ~ret.ok
    /\ obs.acc # EmptyBag
    /\ \E f \in FailedFinds : Len(f[1]) = 2

(***************************************************************************)
(* C14  A failed rebuild.                                                  *)
(***************************************************************************)
\* the place of a name in the order in which the groups were taken
Pos(ord, n) == CHOOSE i \in 1..Len(ord) : ord[i] = n

\* the first component in which two levels differ, 0 when one is a prefix
\* of the other
FirstDifference(p, q) ==
    LET m == IF Len(p) < Len(q) THEN Len(p) ELSE Len(q)
        D == {i \in 1..m : p[i] # q[i]}
    IN IF D = {} THEN 0 ELSE CHOOSE i \in D : \A j \in D : i <= j

\* C14: when rebuild_tree fails it returns no id; no tree was written by the
\* level that failed nor by a level that encloses it; nothing was rebuilt
\* after the failure (every tree written belongs to a group taken before the
\* one that failed); and the trees written by the calls that had completed
\* are still in the store.
C14_RebuildFailure ==
    (Done("rebuild_tree") /\ ~ret.ok)
    => /\ ret.oid = ZeroOid
       /\ \A w \in obs.writes :
             /\ ~IsPrefix(w[1], obs.failed)
             /\ LET i == FirstDifference(w[1], obs.failed)
                IN i > 0 => Pos(obs.ord, w[1][i]) < Pos(obs.ord, obs.failed[i])
             /\ w[2] \in store
       /\ \A o \in obs.before : o.otype # "quota" => o \in store

\* a call that fails one level down after another group wrote a new tree
C14_Witness ==
    /\ Done("rebuild_tree") /\ ~ret.ok
    /\ Len(obs.failed) >= 1
    /\ \E w \in obs.writes : w[2] \notin obs.before /\ w[2] \in store

(***************************************************************************)
(* C15  The store only grows.                                              *)
(***************************************************************************)
\* the objects of a store (an id is the content, so that an object that is
\* still there has the content it had)
Objects(odb) == {o \in odb : o.otype # "quota"}

\* C15: over any sequence of diff, rebuild and filter calls, every step
\* keeps every object of the store, what it adds are trees, and a diff
\* call adds nothing.
C15_StoreOnlyGrows ==
    [][/\ Objects(store) \subseteq Objects(store')
       /\ \A o \in Objects(store') \ Objects(store) : o.otype = "tree"
       /\ (pc = "idle" /\ fn = "get_changed_paths_between_trees") => store' = store]_vars

\* a second call that rebuilds a tree written by the first call into a tree
\* the store did not hold
C15_Witness ==
    /\ calls = MaxCalls /\ Done("rebuild_tree") /\ ret.ok
    /\ args.tree.some
    /\ Cardinality(entry_paths(store, args.tree.val, <<>>)) > MaxSessionNodes
    /\ ret.oid \notin obs.before
    /\ obs.before \subseteq store

(***************************************************************************)
(* C16  Deleting a direct entry that is not there.                         *)
(***************************************************************************)
\* an edit that deletes the one-component path p, which base does not hold
DeletesAbsentEntry(p) ==
    /\ Len(p) = 1
    /\ p \in DOMAIN args.entries /\ ~args.entries[p].some
    /\ ~OptHasEntry(obs.before, args.tree, p)

\* the edit map without the edit of p
EntriesWithout(p) == [q \in DOMAIN args.entries \ {p} |-> args.entries[q]]

\* C16: with an edit that deletes a one-component path of which base holds
\* no entry, rebuild_tree succeeds and returns the tree that it returns for
\* the edit map without that edit.
C16_DeleteAbsentIsNoOp ==
    \A p \in Paths :
        (Done("rebuild_tree") /\ DeletesAbsentEntry(p))
        => \A ord \in Orders :
              LET without == rebuild_tree(obs.before, ord, args.tree, EntriesWithout(p))
              IN ret.ok /\ without.ok /\ without.oid = ret.oid

\* an absent entry is deleted beside an edit that changes the base
C16_Witness ==
    \E p \in Paths :
        /\ Done("rebuild_tree") /\ DeletesAbsentEntry(p) /\ ret.ok
        /\ args.tree.some /\ ret.oid # args.tree.val
        /\ ret.oid # EmptyTreeOid

(***************************************************************************)
(* C17  A nested edit over a file or over a directory that is not there.   *)
(***************************************************************************)
\* the edit map sets d/x and has no edit of d itself
SetsNested(d, x) ==
    /\ <<d, x>> \in DOMAIN args.entries /\ args.entries[<<d, x>>].some
    /\ <<d>> \notin DOMAIN args.entries

\* d/x is the only path of the edit map that starts with d
OnlyEditUnder(d, x) ==
    \A q \in DOMAIN args.entries : (Len(q) >= 1 /\ q[1] = d) => q = <<d, x>>

\* the entries of the directory d of a tree
DirEntries(odb, tree, d) == EntryAt(odb, tree, <<d>>).id.data

\* C17 as amended: when d/x -> Some(v) is the only edit at or below d, the
\* result has d as a directory entry of mode 040000; its entries are x = v
\* alone when base has no entry d or a non-tree entry d, and the entries of
\* the directory d of base with x set to v when base has a directory d.
C17_NestedEditAlone ==
    \A d, x \in Names :
        (Done("rebuild_tree") /\ SetsNested(d, x) /\ OnlyEditUnder(d, x))
        => /\ ret.ok
           /\ HasDir(store, ret.oid, <<d>>)
           /\ EntryAt(store, ret.oid, <<d>>).mode = FILEMODE_TREE
           /\ DirEntries(store, ret.oid, d)
              = (x :> args.entries[<<d, x>>].val)
                @@ (IF OptHasDir(obs.before, args.tree, <<d>>)
                    THEN DirEntries(obs.before, args.tree.val, d)
                    ELSE EmptyEntries)

\* C17 as stated: the same whenever the edit map sets d/x and has no edit
\* of d itself, whatever else it edits below d.
C17_NestedEditAmongOthers ==
    \A d, x \in Names :
        (Done("rebuild_tree") /\ SetsNested(d, x))
        => /\ ret.ok
           /\ HasDir(store, ret.oid, <<d>>)
           /\ EntryAt(store, ret.oid, <<d>>).mode = FILEMODE_TREE
           /\ DirEntries(store, ret.oid, d)
              = (x :> args.entries[<<d, x>>].val)
                @@ (IF OptHasDir(obs.before, args.tree, <<d>>)
                    THEN DirEntries(obs.before, args.tree.val, d)
                    ELSE EmptyEntries)

\* a file d of base becomes the directory d that holds x alone
C17_Witness ==
    \E d, x \in Names :
        /\ Done("rebuild_tree") /\ SetsNested(d, x) /\ OnlyEditUnder(d, x) /\ ret.ok
        /\ OptHasFile(obs.before, args.tree, <<d>>)
        /\ HasDir(store, ret.oid, <<d>>)
        /\ DOMAIN DirEntries(store, ret.oid, d) = {x}

(***************************************************************************)
(* C18  No path is reported twice.                                         *)
(***************************************************************************)
\* C18: in one diff call, failed or not, no path is pushed to the
\* accumulator more than once, and the set a successful call returns has
\* as many elements as paths were pushed.
C18_NoDoubleReport ==
    DiffDone
    => /\ \A p \in BagToSet(obs.acc) : CopiesIn(p, obs.acc) = 1
       /\ ret.ok => Cardinality(ret.changed_paths) = BagCardinality(obs.acc)

\* a directory is reported beside a path inside it, three paths in all
C18_Witness ==
    /\ DiffDone /\ ret.ok
    /\ BagCardinality(obs.acc) >= 3
    /\ \E p, q \in ret.changed_paths : IsProperPrefix(p, q)

(***************************************************************************)
(* C19  No directory entry without its tree.                               *)
(***************************************************************************)
\* every entry of every tree of the store names an object of the store
\* (a gitlink names a commit of another repository)
ClosedStore(odb) ==
    \A t \in TreesIn(odb) :
        \A n \in DOMAIN t.data :
            entry_kind(t.data[n]) # "Commit" => t.data[n].id \in odb

EditIdsExist(odb, entries) ==
    \A p \in DOMAIN entries : entries[p].some => entries[p].val.id \in odb

\* C19: over a store that is closed under references and holds every id of
\* the edit map, every tree that rebuild_tree wrote is in the store and each
\* of its directory entries resolves through find_tree to a tree of the
\* store.
C19_NoDanglingSubtree ==
    (Done("rebuild_tree") /\ ClosedStore(obs.before)
        /\ EditIdsExist(obs.before, args.entries))
    => \A w \in obs.writes :
          /\ w[2] \in store
          /\ \A n \in DOMAIN w[2].data :
                entry_kind(w[2].data[n]) = "Tree" => find_tree(store, w[2].data[n].id).ok

\* a new tree was written two levels down and the trees above it name it
C19_Witness ==
    /\ Done("rebuild_tree") /\ ret.ok
    /\ ClosedStore(obs.before) /\ EditIdsExist(obs.before, args.entries)
    /\ \E w \in obs.writes :
          /\ Len(w[1]) = 2 /\ w[2] \notin obs.before
          /\ HasDir(store, ret.oid, w[1])
          /\ EntryAt(store, ret.oid, w[1]).id = w[2]

(***************************************************************************)
(* C20  cherry_pick and the visible state of the repository.               *)
(***************************************************************************)
\* C20: whether cherry_pick succeeds or fails, HEAD points to the commit it
\* pointed to before the call, and a repository that was not dirty before
\* the call is not dirty after it.
C20_CherryPickLeavesRepoAlone ==
    Done("cherry_pick")
    => /\ head_id_of(repo) = head_id_of(obs.repo)
       /\ ~is_dirty(obs.repo) => ~is_dirty(repo)

\* a clean repository after a cherry-pick that wrote two commits, one on
\* top of the other
C20_Witness ==
    /\ Done("cherry_pick") /\ ~is_dirty(obs.repo) /\ ~is_dirty(repo)
    /\ ret.ok /\ ret.oid \notin obs.before
    /\ parent_id(ret.oid, 0) \notin obs.before
    /\ head_id_of(repo) # ret.oid

(***************************************************************************)
(* C21  cherry_pick on a conflict.                                         *)
(***************************************************************************)
CommitsIn(odb) == {o \in odb : o.otype = "commit"}

\* the call replays one commit: the cherry has one parent, which is not
\* head_id, and both commits are in the store
ReplaysOneCommit ==
    /\ find_commit(obs.before, args.cherry_id).ok
    /\ find_commit(obs.before, args.head_id).ok
    /\ parent_count(args.cherry_id) = 1
    /\ parent_id(args.cherry_id, 0) # args.head_id

\* the index of the cherry commit applied onto head_id
CherryIndex ==
    merge_trees(parent_id(args.cherry_id, 0).data.tree.data, args.head_id.data.tree.data,
                args.cherry_id.data.tree.data, obs.env.automerge)

\* C21 (as amended): when the cherry commit has exactly one parent, other
\* than head_id, and applying it onto head_id gives an index with conflicts,
\* cherry_pick returns an error of code Unmerged and no commit id, the store
\* holds the commits it held before, and the repository is as it was (so a
\* repository that was not dirty is not dirty).
C21_ConflictOfOneCommit ==
    (Done("cherry_pick") /\ ReplaysOneCommit /\ CherryIndex.conflicts # {})
    => /\ ~ret.ok /\ ret.code = "Unmerged" /\ ret.oid = ZeroOid
       /\ CommitsIn(store) = CommitsIn(obs.before)
       /\ repo = obs.repo
       /\ ~is_dirty(obs.repo) => ~is_dirty(repo)

\* a conflict between the one replayed commit and head_id, in a repository
\* that was not dirty
C21_Witness ==
    /\ Done("cherry_pick") /\ ReplaysOneCommit /\ CherryIndex.conflicts # {}
    /\ ~is_dirty(obs.repo)
    /\ ret.code = "Unmerged"

\* C21 (as stated): whenever cherry_pick ends on an index with conflicts
\* (it returns Unmerged, and returns it in the case above), no commit was
\* created and a repository that was not dirty is not dirty.
C21_ConflictCreatesNoCommit ==
    /\ C21_ConflictOfOneCommit
    /\ (Done("cherry_pick") /\ ret.code = "Unmerged")
       => /\ ~ret.ok
          /\ CommitsIn(store) = CommitsIn(obs.before)
          /\ ~is_dirty(obs.repo) => ~is_dirty(repo)

(***************************************************************************)
(* C30  The base of a cherry-pick and the early exit.                      *)
(***************************************************************************)
\* the base as the statement gives it
StatedBase(cherry_id, head_id) ==
    CASE Len(cherry_id.data.parents) = 0 -> cherry_id
      [] Len(cherry_id.data.parents) = 1 -> cherry_id.data.parents[1]
      [] OTHER -> IF \E i \in 1..Len(cherry_id.data.parents) :
                        cherry_id.data.parents[i] = head_id
                  THEN head_id
                  ELSE cherry_id.data.parents[1]

\* when the stated base is head_id, cherry_pick returns cherry_id and leaves
\* the store as it was
EarlyExit ==
    (/\ Done("cherry_pick")
     /\ find_commit(obs.before, args.cherry_id).ok
     /\ StatedBase(args.cherry_id, args.head_id) = args.head_id)
    => ret.ok /\ ret.oid = args.cherry_id /\ store = obs.before

\* the stated base is not head_id: the call goes past the early exit
NoEarlyExit ==
    /\ Done("cherry_pick")
    /\ find_commit(obs.before, args.cherry_id).ok
    /\ StatedBase(args.cherry_id, args.head_id) # args.head_id

\* C30 (as amended): the base is the cherry commit itself when it has no
\* parent, its only parent when it has one, for a merge the parent equal to
\* head_id if there is one and otherwise the first parent; when the base is
\* head_id, cherry_pick returns cherry_id and creates no commit; otherwise a
\* successful call returns head_id or the id of a commit that was not in the
\* store, an id different from cherry_id whenever head_id is not cherry_id.
C30_BaseAndEarlyExit ==
    /\ EarlyExit
    /\ (NoEarlyExit /\ ret.ok)
       => /\ ret.oid = args.head_id \/ ret.oid \notin obs.before
          /\ args.head_id # args.cherry_id => ret.oid # args.cherry_id

\* a merge picked onto its second parent: the early exit
C30_Witness ==
    /\ Done("cherry_pick")
    /\ find_commit(obs.before, args.cherry_id).ok
    /\ parent_count(args.cherry_id) = 2
    /\ parent_id(args.cherry_id, 1) = args.head_id
    /\ parent_id(args.cherry_id, 0) # args.head_id
    /\ ret.ok /\ ret.oid = args.cherry_id /\ store = obs.before

\* C30 (as stated): the same, with every successful call past the early
\* exit returning an id different from cherry_id.
C30_OtherwiseADifferentId ==
    /\ EarlyExit
    /\ (NoEarlyExit /\ ret.ok) => ret.oid # args.cherry_id

(***************************************************************************)
(* C22  squash keeps the identity of the commit squashed into.             *)
(***************************************************************************)
\* the three-way merge of the base, into and head trees
SquashIndex ==
    LET base == IF args.head_id.data.parents = <<>> THEN args.head_id
                ELSE args.head_id.data.parents[1]
    IN merge_trees(base.data.tree.data, args.into_id.data.tree.data,
                   args.head_id.data.tree.data, obs.env.automerge)

BothFound ==
    find_commit(obs.before, args.head_id).ok /\ find_commit(obs.before, args.into_id).ok

\* C22: the commit returned by squash(head_id, into_id) has the author, the
\* committer and the message of into_id, and as its only parent the first
\* parent of into_id (no parent when into_id is a root); it is returned only
\* when the merge of the base, into and head trees has no conflict; on a
\* conflict squash returns Unmerged and the store holds the commits it held.
C22_SquashKeepsIdentity ==
    /\ (Done("squash") /\ ret.ok)
       => /\ ret.oid.otype = "commit" /\ ret.oid \in store
          /\ ret.oid.data.author = args.into_id.data.author
          /\ ret.oid.data.committer = args.into_id.data.committer
          /\ ret.oid.data.time = args.into_id.data.time
          /\ ret.oid.data.message = args.into_id.data.message
          /\ ret.oid.data.parents =
                (IF args.into_id.data.parents = <<>> THEN <<>>
                 ELSE <<args.into_id.data.parents[1]>>)
          /\ SquashIndex.conflicts = {}
          /\ ret.oid.data.tree = TreeOid(SquashIndex.entries)
    /\ (Done("squash") /\ BothFound /\ SquashIndex.conflicts # {})
       => /\ ~ret.ok /\ ret.code = "Unmerged"
          /\ CommitsIn(store) = CommitsIn(obs.before)

\* a merge commit squashed into with a head whose change merges: the new
\* commit has one parent where into_id has two
C22_Witness ==
    /\ Done("squash") /\ ret.ok
    /\ Len(args.into_id.data.parents) = 2
    /\ ret.oid.data.parents = <<args.into_id.data.parents[1]>>
    /\ ret.oid \notin obs.before
    /\ ret.oid.data.tree # args.into_id.data.tree

(***************************************************************************)
(* C23  The reference-transaction hook.                                    *)
(***************************************************************************)
HookMissing == "reference-transaction" \notin DOMAIN repo.hooks

\* the exit code of the hook, a hook ended by a signal counting as 1
HookExitCode ==
    IF repo.hooks["reference-transaction"].status.some
    THEN repo.hooks["reference-transaction"].status.val
    ELSE 1

\* C23: where the hook can be started, run_reference_transaction_prepare
\* returns Ok exactly when the hook is missing or exits with code 0, and
\* run_reference_transaction_committed and run_reference_transaction_aborted
\* return Ok whatever the exit code of the hook.
C23_ReferenceTransactionProtocol ==
    (pc = "done" /\ fn \in HookCalls /\ repo.sh)
    => IF fn = "run_reference_transaction_prepare"
       THEN ret.ok <=> (HookMissing \/ HookExitCode = 0)
       ELSE ret.ok

(***************************************************************************)
(* C24  The diff against the flattened trees.                              *)
(***************************************************************************)
\* the flattened leaf map of a tree: path -> (id, mode) of every non-tree
\* entry at any depth
FlatLeaves(tree) ==
    IF tree.some
    THEN [q \in {x \in entry_paths(store, tree.val, <<>>) : HasFile(store, tree.val, x)} |->
             EntryAt(store, tree.val, q)]
    ELSE <<>>

\* the paths at which two leaf maps differ
LeafDifference(f, g) ==
    {q \in DOMAIN f \cup DOMAIN g :
        \/ q \notin DOMAIN f
        \/ q \notin DOMAIN g
        \/ f[q] # g[q]}

\* the modes of the directory entries of a tree, at every depth
DirModes(tree) ==
    IF tree.some
    THEN {EntryAt(store, tree.val, q).mode :
             q \in {x \in entry_paths(store, tree.val, <<>>) : HasDir(store, tree.val, x)}}
    ELSE {}

OptHasEmptySubtree(tree) == tree.some /\ has_empty_subtree(store, tree.val)

\* C24: for two optional trees that contain no empty subtree and whose
\* directory entries all carry the same mode, the result of
\* get_changed_paths_between_trees is the set of paths at which the two
\* flattened leaf maps differ.
C24_DiffIsLeafDifference ==
    (/\ DiffDone
     /\ ~OptHasEmptySubtree(args.lhs) /\ ~OptHasEmptySubtree(args.rhs)
     /\ Cardinality(DirModes(args.lhs) \cup DirModes(args.rhs)) <= 1)
    => /\ ret.ok
       /\ ret.changed_paths = LeafDifference(FlatLeaves(args.lhs), FlatLeaves(args.rhs))

\* a file replaced by a directory that holds a file: both paths are reported
C24_Witness ==
    /\ DiffDone /\ ret.ok
    /\ ~OptHasEmptySubtree(args.lhs) /\ ~OptHasEmptySubtree(args.rhs)
    /\ Cardinality(DirModes(args.lhs) \cup DirModes(args.rhs)) = 1
    /\ \E q, p \in ret.changed_paths :
          /\ Len(q) = 1 /\ TypeChange(args.lhs, args.rhs, q)
          /\ Len(p) = 2 /\ IsPrefix(q, p) /\ OptHasFile(store, args.rhs, p)

(***************************************************************************)
(* C25  An empty diff.                                                     *)
(***************************************************************************)
\* the entries of an optional tree at every level, as path -> (id, mode)
AllEntries(tree) ==
    IF tree.some
    THEN [q \in entry_paths(store, tree.val, <<>>) |-> EntryAt(store, tree.val, q)]
    ELSE <<>>

\* C25 (as amended): for trees that contain no empty subtree,
\* get_changed_paths_between_trees returns the empty set only when the two
\* trees have the same entries (name, id, mode) at every level, an absent
\* tree counting as the tree with no entry.
C25_EmptyDiffOfFullTrees ==
    (/\ DiffDone /\ ret.ok /\ ret.changed_paths = {}
     /\ ~OptHasEmptySubtree(args.lhs) /\ ~OptHasEmptySubtree(args.rhs))
    => AllEntries(args.lhs) = AllEntries(args.rhs)

\* an empty diff of a tree against a tree of the same entries, two levels
\* deep
C25_Witness ==
    /\ DiffDone /\ ret.ok /\ ret.changed_paths = {}
    /\ ~OptHasEmptySubtree(args.lhs) /\ ~OptHasEmptySubtree(args.rhs)
    /\ AllEntries(args.lhs) = AllEntries(args.rhs)
    /\ \E q \in DOMAIN AllEntries(args.lhs) : Len(q) = 2

\* C25 (as stated): the same for every pair of trees.
C25_EmptyDiffMeansEqual ==
    (DiffDone /\ ret.ok /\ ret.changed_paths = {})
    => AllEntries(args.lhs) = AllEntries(args.rhs)

(***************************************************************************)
(* C26  Deleting a nested path that is not there.                          *)
(***************************************************************************)
\* the call deletes the one path p, of two or more components, that has no
\* entry in the base
DeletesAbsentNestedPath(p) ==
    /\ DOMAIN args.entries = {p}
    /\ ~args.entries[p].some
    /\ Len(p) >= 2
    /\ ~OptHasEntry(obs.before, args.tree, p)

\* C26: for a path p of two or more components that has no entry in T,
\* rebuild_tree(T, {p: None}) returns a tree with exactly the entries of T;
\* stated here for the trees T without an empty subtree whose directory
\* entries have the mode 040000, a proper prefix of p that names a
\* non-directory entry included.
C26_DeleteAbsentNestedIsNoOp ==
    (/\ Done("rebuild_tree")
     /\ \E p \in DOMAIN args.entries : DeletesAbsentNestedPath(p)
     /\ ~OptHasEmptySubtree(args.tree)
     /\ DirModes(args.tree) \subseteq {FILEMODE_TREE})
    => /\ ret.ok
       /\ AllEntries(Some(ret.oid)) = AllEntries(args.tree)

(***************************************************************************)
(* C27  What a rebuild leaves alone.                                       *)
(***************************************************************************)
\* q is not an edit path, not a prefix of one and not under one
Unrelated(q) == \A p \in DOMAIN args.entries : ~Comparable(p, q)

\* C27: after rebuild_tree succeeds, every entry of base at a path that is
\* not an edit path, not a prefix of an edit path and not under an edit path
\* is in the result at that path with the same id and mode.
C27_UnrelatedPathsKept ==
    (Done("rebuild_tree") /\ ret.ok)
    => \A q \in OptEntryPaths(obs.before, args.tree) :
          Unrelated(q)
          => /\ HasEntry(store, ret.oid, q)
             /\ EntryAt(store, ret.oid, q) = EntryAt(obs.before, args.tree.val, q)

\* an entry kept beside an entry of the same directory that an edit sets
C27_Witness ==
    /\ Done("rebuild_tree") /\ ret.ok
    /\ \E q \in OptEntryPaths(obs.before, args.tree) :
          /\ Len(q) = 2 /\ Unrelated(q)
          /\ \E p \in DOMAIN args.entries :
                /\ Len(p) = 2 /\ p[1] = q[1] /\ args.entries[p].some
                /\ HasEntry(store, ret.oid, p)
          /\ HasEntry(store, ret.oid, q)

(***************************************************************************)
(* C28  The order in which the edits are taken.                            *)
(***************************************************************************)
\* the map sets the direct entry d and one entry x inside d, and no other
\* path at or below d
SetsEntryAndInside(d, p) ==
    /\ Len(d) = 1 /\ Len(p) = 2 /\ IsPrefix(d, p)
    /\ {q \in DOMAIN args.entries : IsPrefix(d, q)} = {d, p}
    /\ args.entries[d].some /\ args.entries[p].some

\* C28: what rebuild_tree returns does not depend on the order in which the
\* direct entries and the subtree groups are taken: every order gives the
\* same success or failure and the same tree; and the direct entries are
\* applied before the subtree groups: where the map sets d and d/x, the
\* result holds d as the directory that holds x.
C28_OrderIndependent ==
    Done("rebuild_tree")
    => /\ \A ord \in Orders :
             LET other == rebuild_tree(obs.before, ord, args.tree, args.entries)
             IN other.ok = ret.ok /\ other.oid = ret.oid
       /\ ret.ok
          => \A d, p \in DOMAIN args.entries :
                SetsEntryAndInside(d, p)
                => /\ HasDir(store, ret.oid, d)
                   /\ HasEntry(store, ret.oid, p)
                   /\ EntryAt(store, ret.oid, p) = args.entries[p].val

\* two subtree groups, each of which makes a directory that base has not
C28_Witness ==
    /\ Done("rebuild_tree") /\ ret.ok
    /\ \E p, q \in DOMAIN args.entries :
          /\ Len(p) = 2 /\ Len(q) = 2 /\ p[1] # q[1]
          /\ args.entries[p].some /\ args.entries[q].some
          /\ HasEntry(store, ret.oid, p) /\ HasEntry(store, ret.oid, q)
          /\ ~OptHasEntry(obs.before, args.tree, <<p[1]>>)
          /\ ~OptHasEntry(obs.before, args.tree, <<q[1]>>)

(***************************************************************************)
(* C29  Rebuilding the result with the same edits.                         *)
(***************************************************************************)
\* rebuild_tree applied to the tree it has returned, with the same edit map
Again == rebuild_tree(store, obs.ord, Some(ret.oid), args.entries)

\* C29: rebuild_tree(rebuild_tree(base, E), E) returns the same tree as
\* rebuild_tree(base, E).
C29_Idempotent ==
    (Done("rebuild_tree") /\ ret.ok)
    => (Again.ok /\ Again.oid = ret.oid)

\* a rebuild that has removed one entry of base and added another, so that
\* the second rebuild removes an entry that is no longer there
C29_Witness ==
    /\ Done("rebuild_tree") /\ ret.ok
    /\ \E p, q \in DOMAIN args.entries :
          /\ ~args.entries[p].some
          /\ OptHasEntry(obs.before, args.tree, p)
          /\ ~HasEntry(store, ret.oid, p)
          /\ args.entries[q].some
          /\ ~OptHasEntry(obs.before, args.tree, q)
          /\ HasEntry(store, ret.oid, q)
    /\ Again.ok /\ Again.oid = ret.oid

====
